---- MODULE Spec2Model ----
(***************************************************************************)
(* Shift Management System (src/app.py): the shift store, the user store   *)
(* and the page handlers that change them.                                 *)
(*                                                                         *)
(* Representation                                                          *)
(*   - an HH:MM string is the pair <<h, m>>; strptime turns a well-formed  *)
(*     pair into minutes since midnight, strftime turns minutes back;      *)
(*   - a date is a day number, a datetime is day * 1440 + minutes;         *)
(*   - None is NoTime (<<>>) in a time field and "None" in a name field;   *)
(*   - a username is <<"emp", i>>, <<"admin", i>> or <<"head_admin", 0>>;  *)
(*   - a shift identifier is <<kind, user kind, a, b>>;                    *)
(*   - the shift store is the sequence of its records in the insertion     *)
(*     order of the JSON object (a Python dict keeps that order).          *)
(***************************************************************************)
EXTENDS Integers, Sequences, FiniteSets, TLC

VARIABLES
    users,      \* users.json: username -> user record
    shifts,     \* shifts.json: the shift records, in insertion order
    request,    \* the widget values of the page run that was handled last
    result,     \* the message that page run showed (st.success / st.error / ...)
    runs,       \* per browser session, the page run in flight between load and save
    gen         \* the run of generate_yearly_shifts_for_all_employees: its local variables

vars == <<users, shifts, request, result, runs, gen>>

----------------------------------------------------------------------------
(* Bounds of the model *)

\* employees created by initialize_default_users (25 in the source)
NumEmployees == 3
\* admins created by initialize_default_users (5 in the source)
NumAdmins == 1
\* the day number of datetime.now().date()
Today == 2
\* shifts added per status by add_dummy_shift_data (10 in the source)
DummyCount == 1
\* admin_approve_shifts seeds when fewer shifts than this await approval (10 in the source)
DummyThreshold == 1
\* months of dummy payroll seeded by admin_employee_payroll (6 in the source)
DummyPayrollMonths == 1
\* cap on the shifts created through the Create Shift form
MaxCreated == 1
\* cap on the manual payroll entries added through the form
MaxManual == 1
\* cap on the users added beyond the default users
MaxAddedUsers == 1
\* days the generator goes back from today (365 in the source)
GenYearDays == 3
\* days of one week of the generator (7 in the source)
GenWeekDays == 2
\* shifts per employee the generator fills up to (50 in the source)
GenMinShifts == 3
\* shifts per employee at which the generator stops its weeks (350 in the source)
GenMaxShifts == 4

(* Program constants *)
MinRestHours == 12
MinutesPerDay == 1440

----------------------------------------------------------------------------
(* Values *)

NoTime == <<>>
NoName == "None"

ShiftTypeIds == {"morning", "late", "night", "weekend_morning", "weekend_night"}

\* list(SHIFT_TYPES.keys())
ShiftKeys == <<"morning", "late", "night", "weekend_morning", "weekend_night">>

SHIFT_TYPES ==
    [ morning         |-> [start |-> <<6, 0>>,  end |-> <<14, 0>>, weekday |-> TRUE],
      late            |-> [start |-> <<14, 0>>, end |-> <<22, 0>>, weekday |-> TRUE],
      night           |-> [start |-> <<22, 0>>, end |-> <<6, 0>>,  weekday |-> TRUE],
      weekend_morning |-> [start |-> <<6, 0>>,  end |-> <<18, 0>>, weekday |-> FALSE],
      weekend_night   |-> [start |-> <<18, 0>>, end |-> <<6, 0>>,  weekday |-> FALSE] ]

SHIFT_COMPATIBILITY ==
    [ morning         |-> <<"weekend_morning">>,
      late            |-> <<"weekend_night">>,
      night           |-> <<"weekend_night">>,
      weekend_morning |-> <<"morning">>,
      weekend_night   |-> <<"late", "night">> ]

\* datetime.strptime(s, "%H:%M") succeeds
WellFormed(t) == Len(t) = 2 /\ t[1] \in 0..23 /\ t[2] \in 0..59

\* datetime.strptime(s, "%H:%M"), as minutes since midnight
strptime(t) == t[1] * 60 + t[2]

\* dt.strftime("%H:%M") of a datetime given in minutes
strftime(m) == <<(m % MinutesPerDay) \div 60, m % 60>>

\* datetime.combine(date, time)
combine(day, t) == day * MinutesPerDay + strptime(t)

----------------------------------------------------------------------------
(* The user store *)

HeadAdmin == <<"head_admin", 0>>
Emp(i) == <<"emp", i>>
Admin(i) == <<"admin", i>>

DefaultPrimary(i) == ShiftKeys[(i % Len(ShiftKeys)) + 1]

initialize_default_users ==
    [u \in {HeadAdmin} \cup {Admin(i) : i \in 1..NumAdmins} \cup {Emp(i) : i \in 1..NumEmployees} |->
        IF u = HeadAdmin
        THEN [role |-> "head_admin", primary_shift |-> "morning",
              secondary_shift |-> "weekend_morning", hourly_rate |-> 30]
        ELSE [role |-> IF u[1] = "admin" THEN "admin" ELSE "employee",
              primary_shift |-> DefaultPrimary(u[2]),
              secondary_shift |-> SHIFT_COMPATIBILITY[DefaultPrimary(u[2])][1],
              hourly_rate |-> IF u[1] = "admin" THEN 25 ELSE 20]]

\* {u: role == 'employee'}
EmployeesOf(us) == {u \in DOMAIN us : us[u].role = "employee"}
AdminsOf(us) == {u \in DOMAIN us : us[u].role = "admin"}

\* a faulty variant of allowed_shift_types that takes every type the compatibility
\* map gives the primary type, not the secondary type stored for the employee
allowed_shift_types_compatible(emp) ==
    {emp.primary_shift} \cup
        {SHIFT_COMPATIBILITY[emp.primary_shift][k] :
            k \in 1..Len(SHIFT_COMPATIBILITY[emp.primary_shift])}

\* the shift types one employee may be scheduled into: primary, and secondary if set
allowed_shift_types(emp) ==
    {emp.primary_shift} \cup
        (IF emp.secondary_shift # NoName THEN {emp.secondary_shift} ELSE {})

----------------------------------------------------------------------------
(* The shift store: a dict kept as the sequence of its values *)

Ids(ss) == {ss[i].id : i \in 1..Len(ss)}
IndexOf(ss, id) == CHOOSE i \in 1..Len(ss) : ss[i].id = id
Get(ss, id) == ss[IndexOf(ss, id)]

\* a faulty variant of Put that writes the record into an empty store
Put_fresh(ss, rec) == <<rec>>

\* shifts[id] = rec
Put(ss, rec) ==
    IF rec.id \in Ids(ss) THEN [ss EXCEPT ![IndexOf(ss, rec.id)] = rec]
    ELSE Append(ss, rec)

----------------------------------------------------------------------------
(* generate_yearly_shifts_for_all_employees, run by main() while the store  *)
(* is empty.  The store it saves holds, per employee, approved shifts of    *)
(* the employee's primary or secondary type.  Here one shift per employee,  *)
(* on the day before Today; type[e] and the minute offsets of the actual    *)
(* times are the generator's random draws.                                  *)

GenDay == Today - 1

auto_shift(us, e, type, ds, de) ==
    LET start_time == SHIFT_TYPES[type].start
        end_time   == SHIFT_TYPES[type].end
        start_dt   == combine(GenDay, start_time) + ds
        end_dt0    == combine(GenDay, end_time) + de
        end_dt     == IF end_dt0 <= start_dt THEN end_dt0 + MinutesPerDay ELSE end_dt0
    IN  [ id |-> <<"auto", e[1], e[2], 0>>,
          date |-> GenDay,
          shift_type |-> type,
          planned_start |-> start_time,
          planned_end |-> end_time,
          assigned_employees |-> {e},
          assigned_admin |-> IF AdminsOf(us) # {} THEN Admin(1) ELSE NoName,
          status |-> "approved",
          approved |-> TRUE,
          actual_start |-> strftime(start_dt),
          actual_end |-> strftime(end_dt) ]

RECURSIVE generate_from(_, _, _, _, _)
generate_from(us, i, type, ds, de) ==
    IF i > NumEmployees THEN <<>>
    ELSE IF Emp(i) \in EmployeesOf(us)
         THEN <<auto_shift(us, Emp(i), type[Emp(i)], ds, de)>> \o generate_from(us, i + 1, type, ds, de)
         ELSE generate_from(us, i + 1, type, ds, de)

generate_yearly_shifts_for_all_employees(us, type, ds, de) ==
    generate_from(us, 1, type, ds, de)

----------------------------------------------------------------------------
(* admin_manage_shifts: the Create New Shift form *)

\* a faulty variant of available_shift_types that offers every shift type
available_shift_types_all(us, selected_employees) ==
    IF selected_employees # {} THEN ShiftTypeIds ELSE {}

\* a faulty variant of available_shift_types that offers every shift type while no
\* employee is selected
available_shift_types_unselected(us, selected_employees) ==
    IF selected_employees # {}
    THEN UNION {allowed_shift_types(us[e]) : e \in selected_employees}
    ELSE ShiftTypeIds

\* available_shift_types, lines 775-788
available_shift_types(us, selected_employees) ==
    IF selected_employees # {}
    THEN UNION {allowed_shift_types(us[e]) : e \in selected_employees}
    ELSE {}

\* default_duration, lines 816-820
default_duration(shift_type) ==
    LET default_start == strptime(SHIFT_TYPES[shift_type].start)
        default_end   == strptime(SHIFT_TYPES[shift_type].end)
    IN  IF default_end <= default_start
        THEN default_end + MinutesPerDay - default_start
        ELSE default_end - default_start

\* the value the Planned End Time field is filled with, lines 814-826
auto_end_time(shift_type, planned_start_time) ==
    IF WellFormed(planned_start_time)
    THEN strftime(strptime(planned_start_time) + default_duration(shift_type))
    ELSE SHIFT_TYPES[shift_type].end

\* a faulty variant of shift_end_dt that never moves the end to the next day
shift_end_dt_same_day(s) == combine(s.date, s.planned_end)

\* a faulty variant of shift_end_dt that takes the actual times of a shift that
\* has them
shift_end_dt_actual(s) ==
    LET start == IF s.actual_start # NoTime THEN s.actual_start ELSE s.planned_start
        end == IF s.actual_end # NoTime THEN s.actual_end ELSE s.planned_end
        end_dt == combine(s.date, end)
    IN  IF end_dt <= combine(s.date, start)
        THEN end_dt + MinutesPerDay
        ELSE end_dt

\* end_dt of one stored shift, lines 868-872
shift_end_dt(s) ==
    LET end_dt == combine(s.date, s.planned_end)
    IN  IF end_dt <= combine(s.date, s.planned_start)
        THEN end_dt + MinutesPerDay
        ELSE end_dt

\* a faulty variant of latest_end_dt that also takes the shifts that end after the
\* planned start
RECURSIVE latest_end_dt_any_shift(_, _, _, _)
latest_end_dt_any_shift(ss, emp_username, planned_start_dt, latest) ==
    IF ss = <<>> THEN latest
    ELSE LET s == Head(ss)
             end_dt == shift_end_dt(s)
         IN  IF /\ emp_username \in s.assigned_employees
                /\ (latest = <<>> \/ end_dt > latest[1])
             THEN latest_end_dt_any_shift(Tail(ss), emp_username, planned_start_dt, <<end_dt>>)
             ELSE latest_end_dt_any_shift(Tail(ss), emp_username, planned_start_dt, latest)

\* the loop of lines 866-875 over the store in its order; <<>> is None
RECURSIVE latest_end_dt(_, _, _, _)
latest_end_dt(ss, emp_username, planned_start_dt, latest) ==
    IF ss = <<>> THEN latest
    ELSE LET s == Head(ss)
             end_dt == shift_end_dt(s)
         IN  IF /\ emp_username \in s.assigned_employees
                /\ end_dt <= planned_start_dt
                /\ (latest = <<>> \/ end_dt > latest[1])
             THEN latest_end_dt(Tail(ss), emp_username, planned_start_dt, <<end_dt>>)
             ELSE latest_end_dt(Tail(ss), emp_username, planned_start_dt, latest)

\* a faulty variant of downtime_violations that reports only when every selected
\* employee lacks rest
downtime_violations_unanimous(ss, selected_employees, planned_start_dt) ==
    LET failing == {e \in selected_employees :
                       LET latest == latest_end_dt(ss, e, planned_start_dt, <<>>)
                       IN  latest # <<>> /\ (planned_start_dt - latest[1]) < MinRestHours * 60}
    IN  IF failing = selected_employees THEN failing ELSE {}

\* downtime_violations, lines 858-880
downtime_violations(ss, selected_employees, planned_start_dt) ==
    {e \in selected_employees :
        LET latest == latest_end_dt(ss, e, planned_start_dt, <<>>)
        IN  latest # <<>> /\ (planned_start_dt - latest[1]) < MinRestHours * 60}

\* a faulty variant of new_shift that reuses the identifier of the last record of
\* the store
new_shift_last_id(ss, shift_date, shift_type, planned_start_time, planned_end_time, selected_employees, selected_admin, initial_shift_status) ==
    [ id |-> IF ss = <<>> THEN <<"shift", "", 1, 0>> ELSE ss[Len(ss)].id,
      date |-> shift_date,
      shift_type |-> shift_type,
      planned_start |-> planned_start_time,
      planned_end |-> planned_end_time,
      assigned_employees |-> selected_employees,
      assigned_admin |-> selected_admin,
      status |-> initial_shift_status,
      approved |-> (initial_shift_status = "approved"),
      actual_start |-> IF initial_shift_status = "approved" THEN planned_start_time ELSE NoTime,
      actual_end |-> IF initial_shift_status = "approved" THEN planned_end_time ELSE NoTime ]

\* a faulty variant of new_shift that stores every shift as pending
new_shift_always_pending(ss, shift_date, shift_type, planned_start_time, planned_end_time, selected_employees, selected_admin, initial_shift_status) ==
    [ id |-> <<"shift", "", Len(ss) + 1, 0>>,
      date |-> shift_date,
      shift_type |-> shift_type,
      planned_start |-> planned_start_time,
      planned_end |-> planned_end_time,
      assigned_employees |-> selected_employees,
      assigned_admin |-> selected_admin,
      status |-> "pending",
      approved |-> FALSE,
      actual_start |-> NoTime,
      actual_end |-> NoTime ]

\* the record of lines 895-917
new_shift(ss, shift_date, shift_type, planned_start_time, planned_end_time, selected_employees, selected_admin, initial_shift_status) ==
    [ id |-> <<"shift", "", Len(ss) + 1, 0>>,
      date |-> shift_date,
      shift_type |-> shift_type,
      planned_start |-> planned_start_time,
      planned_end |-> planned_end_time,
      assigned_employees |-> selected_employees,
      assigned_admin |-> selected_admin,
      status |-> initial_shift_status,
      approved |-> (initial_shift_status = "approved"),
      actual_start |-> IF initial_shift_status = "approved" THEN planned_start_time ELSE NoTime,
      actual_end |-> IF initial_shift_status = "approved" THEN planned_end_time ELSE NoTime ]

Created(ss) == Cardinality({i \in 1..Len(ss) : ss[i].id[1] = "shift"})

\* what one run of the form with the Create Shift button pressed shows
create_outcome(us, ss, shift_date, selected_employees, shift_type, planned_start_time, planned_end_time) ==
    IF available_shift_types(us, selected_employees) = {} THEN "select_employees"
    ELSE IF shift_type \notin available_shift_types(us, selected_employees) THEN "not_offered"
    ELSE IF ~WellFormed(planned_start_time) THEN "exception"
    ELSE IF ~WellFormed(planned_end_time) THEN "invalid_time"
    ELSE IF downtime_violations(ss, selected_employees,
                                combine(shift_date, planned_start_time)) # {} THEN "downtime"
    ELSE "created"

\* start_text or end_text = NoTime: the admin leaves the field as the form filled it in
CreateShift(shift_date, selected_employees, shift_type, start_text, end_text, selected_admin, initial_shift_status) ==
    LET planned_start_time ==
            IF start_text = NoTime THEN SHIFT_TYPES[shift_type].start ELSE start_text
        planned_end_time ==
            IF end_text = NoTime
            THEN auto_end_time(shift_type, planned_start_time)
            ELSE end_text
        outcome == create_outcome(users, shifts, shift_date, selected_employees, shift_type,
                                  planned_start_time, planned_end_time)
    IN  /\ selected_employees \subseteq EmployeesOf(users)
        /\ outcome = "created" => Created(shifts) < MaxCreated
        /\ shifts' = IF outcome = "created"
                     THEN Put(shifts, new_shift(shifts, shift_date, shift_type, planned_start_time,
                                                planned_end_time, selected_employees,
                                                selected_admin, initial_shift_status))
                     ELSE shifts
        /\ request' = [op |-> "create", date |-> shift_date, employees |-> selected_employees,
                       shift_type |-> shift_type, planned_start |-> planned_start_time,
                       planned_end |-> planned_end_time, status |-> initial_shift_status]
        /\ result' = outcome
        /\ UNCHANGED <<users, runs, gen>>

----------------------------------------------------------------------------
(* employee_shifts: the Accept and Decline buttons of My Shifts *)

\* a faulty variant of pending_shifts that shows every employee every pending shift
pending_shifts_of_anyone(ss, username) ==
    {ss[i].id : i \in {j \in 1..Len(ss) :
        /\ ss[j].status = "pending"
        /\ ss[j].shift_type # "manual_payroll"}}

\* a faulty variant of pending_shifts that still shows the buttons for a shift
\* that has been accepted
pending_shifts_until_declined(ss, username) ==
    {ss[i].id : i \in {j \in 1..Len(ss) :
        /\ username \in ss[j].assigned_employees
        /\ ss[j].status \in {"pending", "accepted"}
        /\ ss[j].shift_type # "manual_payroll"}}

\* pending_shifts, lines 641-645: the shifts the page shows buttons for
pending_shifts(ss, username) ==
    {ss[i].id : i \in {j \in 1..Len(ss) :
        /\ username \in ss[j].assigned_employees
        /\ ss[j].status = "pending"
        /\ ss[j].shift_type # "manual_payroll"}}

\* lines 658-668; a button the page does not show cannot be pressed
RespondToShift(username, shift_id, new_status) ==
    LET offered == shift_id \in pending_shifts(shifts, username)
    IN  /\ username \in EmployeesOf(users)
        /\ shifts' = IF offered
                     THEN [shifts EXCEPT ![IndexOf(shifts, shift_id)].status = new_status]
                     ELSE shifts
        /\ request' = [op |-> "respond", username |-> username, id |-> shift_id,
                       new_status |-> new_status]
        /\ result' = IF offered THEN new_status ELSE "not_offered"
        /\ UNCHANGED <<users, runs, gen>>

----------------------------------------------------------------------------
(* add_dummy_shift_data and admin_approve_shifts *)

\* one record of lines 219-231 / 240-252; d holds the random draws
dummy_shift(kind, i, d, status) ==
    [ id |-> <<kind, "", Today, i>>,
      date |-> Today - d.days,
      shift_type |-> d.shift_type,
      planned_start |-> SHIFT_TYPES[d.shift_type].start,
      planned_end |-> SHIFT_TYPES[d.shift_type].end,
      assigned_employees |-> {d.employee},
      assigned_admin |-> Admin(d.admin),
      status |-> status,
      approved |-> FALSE,
      actual_start |-> NoTime,
      actual_end |-> NoTime ]

\* for i in range(10): shifts[shift_id] = {...}; rnd[k] are the draws of the k-th record
RECURSIVE put_dummies(_, _, _, _, _, _)
put_dummies(ss, kind, status, i, rnd, k) ==
    IF i >= DummyCount THEN ss
    ELSE put_dummies(Put(ss, dummy_shift(kind, i, rnd[k], status)), kind, status, i + 1, rnd, k + 1)

\* lines 201-254
add_dummy_shift_data(ss, us, rnd) ==
    IF EmployeesOf(us) = {} THEN ss
    ELSE put_dummies(put_dummies(ss, "dummy_pending", "pending", 0, rnd, 1),
                     "dummy_accepted", "accepted", 0, rnd, DummyCount + 1)

\* lines 958-966: the top of every run of the Approve Shifts page
seed_if_needed(ss, us, rnd) ==
    LET pending_or_accepted ==
            {i \in 1..Len(ss) : /\ ss[i].status \in {"pending", "accepted"}
                                /\ ss[i].shift_type # "manual_payroll"}
    IN  IF Cardinality(pending_or_accepted) < DummyThreshold
        THEN add_dummy_shift_data(ss, us, rnd)
        ELSE ss

\* a faulty variant of pending_approval_shifts that lists every unapproved shift
pending_approval_shifts_any_status(ss) ==
    {ss[i].id : i \in {j \in 1..Len(ss) :
        /\ ~ss[j].approved
        /\ ss[j].shift_type # "manual_payroll"}}

\* pending_approval_shifts, lines 972-975
pending_approval_shifts(ss) ==
    {ss[i].id : i \in {j \in 1..Len(ss) :
        /\ ss[j].status \in {"accepted", "pending"}
        /\ ~ss[j].approved
        /\ ss[j].shift_type # "manual_payroll"}}

\* a faulty variant of approve_record that leaves the actual times as they were
approve_record_no_times(s, actual_start_time, actual_end_time) ==
    [s EXCEPT !.approved = TRUE, !.status = "approved"]

\* a faulty variant of approve_record that leaves the status as it is
approve_record_keeps_status(s, actual_start_time, actual_end_time) ==
    [s EXCEPT !.approved = TRUE,
              !.actual_start = actual_start_time,
              !.actual_end = actual_end_time]

\* lines 1028-1031
approve_record(s, actual_start_time, actual_end_time) ==
    [s EXCEPT !.approved = TRUE,
              !.actual_start = actual_start_time,
              !.actual_end = actual_end_time,
              !.status = "approved"]

\* a run of the page with no button pressed
VisitApprovePage(rnd) ==
    /\ shifts' = seed_if_needed(shifts, users, rnd)
    /\ request' = [op |-> "visit_approve"]
    /\ result' = IF pending_approval_shifts(shifts') = {} THEN "no_pending" ELSE "listed"
    /\ UNCHANGED <<users, runs, gen>>

\* lines 983-1036 for the Approve button of shift_id, on the store the page has
\* loaded: the store saved and the message shown
approve_click(ss, shift_id, approval_type, start_text, end_text) ==
    IF shift_id \notin pending_approval_shifts(ss)
    THEN [shifts |-> ss, result |-> "not_offered"]
    ELSE LET shift == Get(ss, shift_id)
             actual_start_time == IF approval_type = "Partial Approval" THEN start_text
                                  ELSE shift.planned_start
             actual_end_time == IF approval_type = "Partial Approval" THEN end_text
                                ELSE shift.planned_end
             time_valid == approval_type = "Partial Approval" =>
                             WellFormed(actual_start_time) /\ WellFormed(actual_end_time)
         IN  IF time_valid
             THEN [shifts |-> [ss EXCEPT ![IndexOf(ss, shift_id)] =
                                  approve_record(shift, actual_start_time, actual_end_time)],
                   result |-> "approved"]
             ELSE [shifts |-> ss, result |-> "invalid_time"]

\* a run of the page with the Approve button of shift_id pressed, and the run
\* st.rerun() starts after a successful approval
ApproveShift(shift_id, approval_type, start_text, end_text, rnd) ==
    LET seeded == seed_if_needed(shifts, users, rnd)
        click == approve_click(seeded, shift_id, approval_type, start_text, end_text)
    IN  /\ shifts' = IF click.result = "approved"
                     THEN seed_if_needed(click.shifts, users, rnd)
                     ELSE seeded
        /\ request' = [op |-> "approve", id |-> shift_id, approval_type |-> approval_type,
                       actual_start |-> start_text, actual_end |-> end_text]
        /\ result' = click.result
        /\ UNCHANGED <<users, runs, gen>>

----------------------------------------------------------------------------
(* admin_employee_payroll: dummy payroll seeding and the manual entry form. *)
(* The calendar is the 30-day month and 360-day year.                       *)

FirstOfMonth(day) == day - (day % 30)
FirstOfYear(day) == day - (day % 360)

manual_record(id, day, username, session_user, amount, description) ==
    [ id |-> id,
      date |-> day,
      shift_type |-> "manual_payroll",
      planned_start |-> <<0, 0>>,
      planned_end |-> <<0, 0>>,
      assigned_employees |-> {username},
      assigned_admin |-> session_user,
      status |-> "approved",
      approved |-> TRUE,
      actual_start |-> <<0, 0>>,
      actual_end |-> <<0, 0>>,
      manual_amount |-> amount,
      description |-> description ]

PutIfAbsent(ss, rec) == IF rec.id \in Ids(ss) THEN ss ELSE Append(ss, rec)

\* lines 1135-1154, for one user
RECURSIVE seed_months(_, _, _, _, _)
seed_months(ss, u, session_user, i, amounts) ==
    IF i >= DummyPayrollMonths THEN ss
    ELSE seed_months(
            PutIfAbsent(ss, manual_record(<<"dummy_payroll_month", u[1], u[2], i + 1>>,
                            FirstOfMonth(FirstOfMonth(Today) - 1) - 30 * i,
                            u, session_user, amounts.month, "Dummy Payroll Month")),
            u, session_user, i + 1, amounts)

\* lines 1132-1174, for the users in order
RECURSIVE seed_payroll(_, _, _, _)
seed_payroll(ss, us_order, session_user, amounts) ==
    IF us_order = <<>> THEN ss
    ELSE LET u == Head(us_order)
             with_months == seed_months(ss, u, session_user, 0, amounts)
             with_year == PutIfAbsent(with_months,
                            manual_record(<<"dummy_payroll_last_year", u[1], u[2], 0>>,
                                FirstOfYear(Today) - 360,
                                u, session_user, amounts.year, "Dummy Payroll Last Year"))
         IN  seed_payroll(with_year, Tail(us_order), session_user, amounts)

\* the usernames of a set of users, by number
RECURSIVE InOrder(_)
InOrder(S) ==
    IF S = {} THEN <<>>
    ELSE LET u == CHOOSE x \in S : \A y \in S : x[2] <= y[2]
         IN  <<u>> \o InOrder(S \ {u})

\* list(employees.values()) + list(admins.values())
payroll_users(us) == InOrder(EmployeesOf(us)) \o InOrder(AdminsOf(us))

Manuals(ss) == Cardinality({i \in 1..Len(ss) : ss[i].id[1] = "manual_payroll"})

\* a faulty variant of AddManualEntry that stores the entry whatever the amount
AddManualEntry_any_amount(session_user, selected_user, entry_date, description, amount, amounts, now, rnd) ==
    LET seeded == seed_payroll(shifts, payroll_users(users), session_user, amounts)
        outcome == IF description = "" THEN "fill_all_fields" ELSE "added"
        entry == manual_record(<<"manual_payroll", "", now, rnd>>,
                               entry_date, selected_user, session_user, amount, description)
    IN  /\ session_user \in AdminsOf(users) \cup {HeadAdmin}
        /\ selected_user \in EmployeesOf(users) \cup AdminsOf(users)
        /\ outcome = "added" => Manuals(Put(seeded, entry)) <= MaxManual
        /\ shifts' = IF outcome = "added" THEN Put(seeded, entry) ELSE seeded
        /\ request' = [op |-> "manual", username |-> selected_user, date |-> entry_date,
                       description |-> description, amount |-> amount]
        /\ result' = outcome
        /\ UNCHANGED <<users, runs, gen>>

\* a run of the page with the manual payroll form submitted (lines 1128-1175 and
\* 1303-1330)
\* now is the second datetime.now() shows and rnd the draw of random.randint at
\* line 1311: the two make the identifier of the entry
AddManualEntry(session_user, selected_user, entry_date, description, amount, amounts, now, rnd) ==
    LET seeded == seed_payroll(shifts, payroll_users(users), session_user, amounts)
        outcome == IF description = "" THEN "fill_all_fields"
                   ELSE IF amount = 0 THEN "amount_zero"
                   ELSE "added"
        entry == manual_record(<<"manual_payroll", "", now, rnd>>,
                               entry_date, selected_user, session_user, amount, description)
    IN  /\ session_user \in AdminsOf(users) \cup {HeadAdmin}
        /\ selected_user \in EmployeesOf(users) \cup AdminsOf(users)
        /\ outcome = "added" => Manuals(Put(seeded, entry)) <= MaxManual
        /\ shifts' = IF outcome = "added" THEN Put(seeded, entry) ELSE seeded
        /\ request' = [op |-> "manual", username |-> selected_user, date |-> entry_date,
                       description |-> description, amount |-> amount]
        /\ result' = outcome
        /\ UNCHANGED <<users, runs, gen>>

----------------------------------------------------------------------------
(* get_shift_duration, calculate_pay, calculate_payroll_for_user and the    *)
(* Timesheet & Pay page.  Hours are counted in minutes (hours * 60) and pay *)
(* in sixtieths of a euro (euros * 60), so that hours * rate is exact; the  *)
(* floating point rounding of the sums is not modelled.                     *)

\* a faulty variant of get_shift_duration that never adds a day
get_shift_duration_same_day(start_time_str, end_time_str) ==
    strptime(end_time_str) - strptime(start_time_str)

\* get_shift_duration, lines 117-125, in minutes
get_shift_duration(start_time_str, end_time_str) ==
    LET start == strptime(start_time_str)
        end   == strptime(end_time_str)
    IN  IF end < start THEN end + MinutesPerDay - start ELSE end - start

\* shift.get('actual_start', shift['planned_start']): the default is taken only
\* when the key is missing
get_actual_start(shift) ==
    IF "actual_start" \in DOMAIN shift THEN shift.actual_start ELSE shift.planned_start

get_actual_end(shift) ==
    IF "actual_end" \in DOMAIN shift THEN shift.actual_end ELSE shift.planned_end

\* a faulty variant of calculate_pay that pays every record by the hour
calculate_pay_by_the_hour(shift_data, hourly_rate) ==
    IF shift_data.approved
    THEN get_shift_duration(get_actual_start(shift_data), get_actual_end(shift_data))
            * hourly_rate
    ELSE 0

\* calculate_pay, lines 127-137, in sixtieths of a euro
calculate_pay(shift_data, hourly_rate) ==
    IF shift_data.approved
    THEN IF shift_data.shift_type = "manual_payroll" /\ "manual_amount" \in DOMAIN shift_data
         THEN shift_data.manual_amount * 60
         ELSE get_shift_duration(get_actual_start(shift_data), get_actual_end(shift_data))
                 * hourly_rate
    ELSE 0

\* f"{hours:.1f}": tenths of an hour, from minutes
format_hours(minutes) == (minutes * 10 + 30) \div 60

\* f"{pay:.2f}": cents, from sixtieths of a euro
format_pay(pay) == (pay * 100 + 30) \div 60

\* a faulty variant of counted that does not ask for approval
counted_unapproved_too(shift, username, start_date, end_date) ==
    /\ username \in shift.assigned_employees
    /\ start_date <= shift.date
    /\ shift.date <= end_date

\* lines 156-158
counted(shift, username, start_date, end_date) ==
    /\ username \in shift.assigned_employees
    /\ shift.approved
    /\ start_date <= shift.date
    /\ shift.date <= end_date

\* strptime raises TypeError on None: a counted regular shift without actual times
raises(shift) ==
    /\ shift.shift_type # "manual_payroll" \/ "manual_amount" \notin DOMAIN shift
    /\ (get_actual_start(shift) = NoTime \/ get_actual_end(shift) = NoTime)

\* the line item of lines 166-190; <<>> stands for "N/A"
detailed_shift(shift, hourly_rate) ==
    IF shift.shift_type = "manual_payroll"
    THEN [Date |-> shift.date, ShiftType |-> "Manual Entry",
          PlannedStart |-> NoTime, PlannedEnd |-> NoTime,
          ActualStart |-> NoTime, ActualEnd |-> NoTime,
          Hours |-> <<>>,
          Pay |-> format_pay(calculate_pay(shift, hourly_rate)),
          Description |-> IF "description" \in DOMAIN shift THEN shift.description
                          ELSE "Manual Adjustment"]
    ELSE [Date |-> shift.date, ShiftType |-> shift.shift_type,
          PlannedStart |-> shift.planned_start, PlannedEnd |-> shift.planned_end,
          ActualStart |-> get_actual_start(shift), ActualEnd |-> get_actual_end(shift),
          Hours |-> <<format_hours(get_shift_duration(get_actual_start(shift),
                                                      get_actual_end(shift)))>>,
          Pay |-> format_pay(calculate_pay(shift, hourly_rate)),
          Description |-> "Regular Shift"]

\* the loop of lines 152-195 over the store in its order
RECURSIVE payroll_loop(_, _, _, _, _, _)
payroll_loop(ss, username, hourly_rate, start_date, end_date, acc) ==
    IF ss = <<>> THEN acc
    ELSE LET shift == Head(ss)
         IN  IF ~counted(shift, username, start_date, end_date)
             THEN payroll_loop(Tail(ss), username, hourly_rate, start_date, end_date, acc)
             ELSE IF raises(shift)
             THEN [total_hours |-> 0, total_pay |-> 0, detailed_shifts |-> <<>>,
                   exception |-> TRUE]
             ELSE payroll_loop(Tail(ss), username, hourly_rate, start_date, end_date,
                    [total_hours |-> acc.total_hours
                        + (IF shift.shift_type = "manual_payroll" THEN 0
                           ELSE get_shift_duration(get_actual_start(shift),
                                                   get_actual_end(shift))),
                     total_pay |-> acc.total_pay + calculate_pay(shift, hourly_rate),
                     detailed_shifts |-> Append(acc.detailed_shifts,
                                                detailed_shift(shift, hourly_rate)),
                     exception |-> FALSE])

\* a faulty variant of calculate_payroll_for_user that leaves out the end date
calculate_payroll_for_user_open_end(ss, username, hourly_rate, start_date, end_date) ==
    payroll_loop(ss, username, hourly_rate, start_date, end_date - 1,
                 [total_hours |-> 0, total_pay |-> 0, detailed_shifts |-> <<>>,
                  exception |-> FALSE])

\* calculate_payroll_for_user, lines 139-198, on the store ss
calculate_payroll_for_user(ss, username, hourly_rate, start_date, end_date) ==
    payroll_loop(ss, username, hourly_rate, start_date, end_date,
                 [total_hours |-> 0, total_pay |-> 0, detailed_shifts |-> <<>>,
                  exception |-> FALSE])

\* a faulty variant of Timesheet that seeds the dummy payroll entries, as the
\* Employee Payroll page does, and saves the store
Timesheet_seeding(username, start_date, end_date) ==
    /\ username \in DOMAIN users
    /\ shifts' = seed_payroll(shifts, payroll_users(users), username,
                            [month |-> 1000, year |-> 9000])
    /\ request' = [op |-> "timesheet", username |-> username,
                   hourly_rate |-> users[username].hourly_rate,
                   start_date |-> start_date, end_date |-> end_date]
    /\ result' = calculate_payroll_for_user(shifts', username, users[username].hourly_rate,
                                            start_date, end_date)
    /\ UNCHANGED <<users, runs, gen>>

\* employee_timesheet, lines 570-636, with the Custom Range period: the page
\* shows the payroll of the user logged in and writes nothing
Timesheet(username, start_date, end_date) ==
    /\ username \in DOMAIN users
    /\ request' = [op |-> "timesheet", username |-> username,
                   hourly_rate |-> users[username].hourly_rate,
                   start_date |-> start_date, end_date |-> end_date]
    /\ result' = calculate_payroll_for_user(shifts, username, users[username].hourly_rate,
                                            start_date, end_date)
    /\ UNCHANGED <<users, shifts, runs, gen>>

\* one call of get_shift_duration, as the calendar and payroll pages make it
Duration(start_time_str, end_time_str) ==
    /\ WellFormed(start_time_str)
    /\ WellFormed(end_time_str)
    /\ request' = [op |-> "duration", start |-> start_time_str, end |-> end_time_str]
    /\ result' = get_shift_duration(start_time_str, end_time_str)
    /\ UNCHANGED <<users, shifts, runs, gen>>

----------------------------------------------------------------------------
(* admin_create_employee and head_admin_manage_users: the user store.  A    *)
(* user record keeps the role, the shift types and the hourly rate; name,   *)
(* e-mail and password are left out, filled says that the form's required   *)
(* text fields are all non-empty.                                           *)

\* a faulty variant of secondary_shift_options that offers every shift type
secondary_shift_options_all(primary_shift) == ShiftKeys

\* SHIFT_COMPATIBILITY.get(new_primary_shift, []), lines 1084 and 1395
secondary_shift_options(primary_shift) == SHIFT_COMPATIBILITY[primary_shift]

\* what the Secondary Shift Type selectbox can return: 'None' or one of its options
secondary_shift_values(primary_shift) ==
    {NoName} \cup {secondary_shift_options(primary_shift)[k] :
                      k \in 1..Len(secondary_shift_options(primary_shift))}

\* users[new_username] = {...}, lines 1105-1114 and 1415-1424
with_user(us, username, role, primary_shift, secondary_shift, hourly_rate) ==
    [u \in DOMAIN us \cup {username} |->
        IF u = username
        THEN [role |-> role, primary_shift |-> primary_shift,
              secondary_shift |-> secondary_shift, hourly_rate |-> hourly_rate]
        ELSE us[u]]

DefaultUserCount == 1 + NumAdmins + NumEmployees

\* a faulty variant of add_outcome that does not look for the username
add_outcome_overwriting(us, new_username, filled) ==
    IF ~filled THEN "fill_required" ELSE "user_added"

\* the checks of lines 1101-1104 and 1410-1413
add_outcome(us, new_username, filled) ==
    IF ~filled THEN "fill_required"
    ELSE IF new_username \in DOMAIN us THEN "username_exists"
    ELSE "user_added"

\* admin_create_employee, lines 1067-1118, with the form submitted
CreateEmployee(new_username, filled, new_primary_shift, new_secondary_shift, new_hourly_rate) ==
    LET outcome == add_outcome(users, new_username, filled)
    IN  /\ new_primary_shift \in ShiftTypeIds
        /\ new_secondary_shift \in secondary_shift_values(new_primary_shift)
        /\ (outcome = "user_added" /\ new_username \notin DOMAIN users) =>
              Cardinality(DOMAIN users) < DefaultUserCount + MaxAddedUsers
        /\ users' = IF outcome = "user_added"
                    THEN with_user(users, new_username, "employee", new_primary_shift,
                                   new_secondary_shift, new_hourly_rate)
                    ELSE users
        /\ request' = [op |-> "create_employee", username |-> new_username,
                       role |-> "employee", primary_shift |-> new_primary_shift,
                       secondary_shift |-> new_secondary_shift]
        /\ result' = outcome
        /\ UNCHANGED <<shifts, runs, gen>>

\* head_admin_manage_users, Add New User, lines 1380-1429
AddUser(new_username, filled, new_role, new_primary_shift, new_secondary_shift, new_hourly_rate) ==
    LET outcome == add_outcome(users, new_username, filled)
    IN  /\ new_role \in {"admin", "employee"}
        /\ new_primary_shift \in ShiftTypeIds
        /\ new_secondary_shift \in secondary_shift_values(new_primary_shift)
        /\ (outcome = "user_added" /\ new_username \notin DOMAIN users) =>
              Cardinality(DOMAIN users) < DefaultUserCount + MaxAddedUsers
        /\ users' = IF outcome = "user_added"
                    THEN with_user(users, new_username, new_role, new_primary_shift,
                                   new_secondary_shift, new_hourly_rate)
                    ELSE users
        /\ request' = [op |-> "add_user", username |-> new_username, role |-> new_role,
                       primary_shift |-> new_primary_shift,
                       secondary_shift |-> new_secondary_shift]
        /\ result' = outcome
        /\ UNCHANGED <<shifts, runs, gen>>

\* a faulty variant of update_targets that lists every user
update_targets_all(us) == DOMAIN us

\* the users of the Select User to Update box, line 1436
update_targets(us) == {u \in DOMAIN us : us[u].role # "head_admin"}

\* head_admin_manage_users, Update User, lines 1431-1512
UpdateUser(update_username, updated_role, updated_primary_shift, updated_secondary_shift, updated_hourly_rate) ==
    LET offered == update_username \in update_targets(users)
    IN  /\ updated_role \in {"admin", "employee"}
        /\ updated_primary_shift \in ShiftTypeIds
        /\ updated_secondary_shift \in secondary_shift_values(updated_primary_shift)
        /\ users' = IF offered
                    THEN with_user(users, update_username, updated_role, updated_primary_shift,
                                   updated_secondary_shift, updated_hourly_rate)
                    ELSE users
        /\ request' = [op |-> "update_user", username |-> update_username,
                       role |-> updated_role, primary_shift |-> updated_primary_shift,
                       secondary_shift |-> updated_secondary_shift]
        /\ result' = IF offered THEN "user_updated" ELSE "not_offered"
        /\ UNCHANGED <<shifts, runs, gen>>

\* the users of the Select User to Delete box, line 1518
delete_targets(us) == {u \in DOMAIN us : us[u].role \notin {"head_admin"}}

\* head_admin_manage_users, Delete User, lines 1514-1527
DeleteUser(delete_username) ==
    LET offered == delete_username \in delete_targets(users)
    IN  /\ users' = IF offered
                    THEN [u \in DOMAIN users \ {delete_username} |-> users[u]]
                    ELSE users
        /\ request' = [op |-> "delete_user", username |-> delete_username,
                       role |-> "", primary_shift |-> "", secondary_shift |-> ""]
        /\ result' = IF offered THEN "user_deleted" ELSE "not_offered"
        /\ UNCHANGED <<shifts, runs, gen>>

----------------------------------------------------------------------------
(* generate_yearly_shifts_for_all_employees step by step (lines 257-354):   *)
(* one step per pass through a loop.  gen holds the local variables of the  *)
(* run: emps, the employees still to do, the first being emp; week_start    *)
(* and the days of days_this_week still to do; emp_shift_count;             *)
(* last_shift_end (<<>> is None); the dict shifts, saved at the end.  Days  *)
(* are counted from start_date, so that today is day GenYearDays.  The      *)
(* draws of random are the parameters of the steps.  The date part of the   *)
(* identifier auto_<username>_<date>_<count> is left out: the count alone   *)
(* tells the identifiers of one employee apart.                             *)

GenIdle ==
    [pc |-> "idle", emps |-> <<>>, week_start |-> 0, days |-> <<>>, count |-> 0,
     last |-> <<>>, store |-> <<>>]

\* lines 259-270: the state at the first test of the while loop over the weeks
gen_begin(emps, store) ==
    [pc |-> "week", emps |-> emps, week_start |-> 0, days |-> <<>>, count |-> 0,
     last |-> <<>>, store |-> store]

\* the date of a day counted from start_date (line 265)
gen_date(k) == Today - GenYearDays + k

\* days_this_week.sort()
RECURSIVE sorted(_)
sorted(S) ==
    IF S = {} THEN <<>>
    ELSE LET d == CHOOSE x \in S : \A y \in S : x <= y
         IN  <<d>> \o sorted(S \ {d})

\* lines 291-294 and 334-337
gen_start_dt(k, shift_type, ds) == combine(gen_date(k), SHIFT_TYPES[shift_type].start) + ds

gen_end_dt(k, shift_type, ds, de) ==
    LET end_dt == combine(gen_date(k), SHIFT_TYPES[shift_type].end) + de
    IN  IF end_dt <= gen_start_dt(k, shift_type, ds) THEN end_dt + MinutesPerDay ELSE end_dt

\* a faulty variant of gen_rested that never skips a shift
gen_rested_always(last, start_dt) == TRUE

\* the negation of the test of lines 297 and 338: enough downtime
gen_rested(last, start_dt) ==
    ~(last # <<>> /\ (start_dt - last[1]) < MinRestHours * 60)

\* the record of lines 301-313 and 341-353
gen_record(us, emp, kind, count, k, shift_type, ds, de) ==
    [ id |-> <<kind, emp[1], emp[2], count>>,
      date |-> gen_date(k),
      shift_type |-> shift_type,
      planned_start |-> SHIFT_TYPES[shift_type].start,
      planned_end |-> SHIFT_TYPES[shift_type].end,
      assigned_employees |-> {emp},
      assigned_admin |-> IF AdminsOf(us) # {} THEN Admin(1) ELSE NoName,
      status |-> "approved",
      approved |-> TRUE,
      actual_start |-> strftime(gen_start_dt(k, shift_type, ds)),
      actual_end |-> strftime(gen_end_dt(k, shift_type, ds, de)) ]

\* the local variables after a shift is added (lines 300-315 and 340-355)
gen_added(g, us, kind, k, shift_type, ds, de) ==
    [g EXCEPT !.store = Put(g.store, gen_record(us, Head(g.emps), kind, g.count, k,
                                                shift_type, ds, de)),
              !.count = g.count + 1,
              !.last = <<gen_end_dt(k, shift_type, ds, de)>>]

\* line 275: the test of the while loop, and the draw of lines 276-278
WeekBegin(days_this_week) ==
    /\ gen.pc = "week"
    /\ days_this_week # {}
    /\ days_this_week \subseteq 0..(GenWeekDays - 1)
    /\ gen' = IF gen.week_start < GenYearDays
              THEN [gen EXCEPT !.pc = "day", !.days = sorted(days_this_week)]
              ELSE [gen EXCEPT !.pc = "fill"]
    /\ UNCHANGED <<users, shifts, request, result, runs>>

\* lines 280-318: one pass through the for loop over the days of the week
WeekShift(shift_type, ds, de) ==
    /\ gen.pc = "day"
    /\ gen.days # <<>>
    /\ shift_type \in allowed_shift_types(users[Head(gen.emps)])
    /\ LET k == gen.week_start + Head(gen.days)
           added == gen_added(gen, users, "auto", k, shift_type, ds, de)
       IN  gen' = IF k > GenYearDays THEN [gen EXCEPT !.days = Tail(gen.days)]
                  ELSE IF ~gen_rested(gen.last, gen_start_dt(k, shift_type, ds))
                  THEN [gen EXCEPT !.days = Tail(gen.days)]
                  ELSE IF added.count >= GenMaxShifts
                  THEN [added EXCEPT !.days = <<>>]
                  ELSE [added EXCEPT !.days = Tail(gen.days)]
    /\ UNCHANGED <<users, shifts, request, result, runs>>

\* lines 319-321: the end of the for loop
WeekEnd ==
    /\ gen.pc = "day"
    /\ gen.days = <<>>
    /\ gen' = [gen EXCEPT !.week_start = gen.week_start + GenWeekDays,
                          !.pc = IF gen.count >= GenMaxShifts THEN "fill" ELSE "week"]
    /\ UNCHANGED <<users, shifts, request, result, runs>>

\* lines 324-352: one pass through the fill-up loop
FillShift(random_day, shift_type, ds, de) ==
    /\ gen.pc = "fill"
    /\ gen.count < GenMinShifts
    /\ random_day \in 0..(GenYearDays - 1)
    /\ shift_type \in allowed_shift_types(users[Head(gen.emps)])
    /\ gen' = IF ~gen_rested(gen.last, gen_start_dt(random_day, shift_type, ds))
              THEN gen
              ELSE gen_added(gen, users, "auto_extra", random_day, shift_type, ds, de)
    /\ UNCHANGED <<users, shifts, request, result, runs>>

\* line 324 with enough shifts: the next employee of line 267, or line 354
EmployeeEnd ==
    /\ gen.pc = "fill"
    /\ gen.count >= GenMinShifts
    /\ gen' = IF Tail(gen.emps) = <<>>
              THEN [gen EXCEPT !.pc = "done", !.emps = <<>>]
              ELSE gen_begin(Tail(gen.emps), gen.store)
    /\ shifts' = IF Tail(gen.emps) = <<>> THEN gen.store ELSE shifts
    /\ UNCHANGED <<users, request, result, runs>>

----------------------------------------------------------------------------
(* Page runs of several browser sessions.  Streamlit runs the script of     *)
(* every session in a thread of its own, so the runs of two sessions        *)
(* interleave.  A run that changes the store loads shifts.json              *)
(* (load_shifts, lines 53-58), changes its own copy, and saves it           *)
(* (save_shifts, lines 60-63): open(SHIFTS_FILE, 'w') empties the file and  *)
(* json.dump then writes the copy.  Nothing locks the file and nothing      *)
(* replaces it atomically.  runs[s] is the run of session s in flight: pc   *)
(* is "idle" (no run), "loaded" (the copy is changed and not yet saved) or  *)
(* "writing" (the file is open for writing and not yet written), and store  *)
(* is the copy.  Two sessions with the file open for writing at once are    *)
(* left out.                                                                *)

Sessions == {"A", "B"}

IdleRun == [pc |-> "idle", op |-> "", id |-> <<>>, store |-> <<>>]

\* the file holds a complete store: no session is between open(..., 'w') and the
\* end of json.dump
file_complete(rs) == \A s \in Sessions : rs[s].pc # "writing"

\* load_shifts and the change of the copy, for a run that found its button
Load(s, op, id, store) ==
    /\ runs[s].pc = "idle"
    /\ file_complete(runs)
    /\ runs' = [runs EXCEPT ![s] = [pc |-> "loaded", op |-> op, id |-> id, store |-> store]]
    /\ UNCHANGED <<users, shifts, request, result, gen>>

\* employee_shifts, lines 640-659 and 664-665: the run loads the store, shows the
\* button of the pending shift and sets the status in its copy
LoadRespond(s, username, shift_id, new_status) ==
    /\ username \in EmployeesOf(users)
    /\ shift_id \in pending_shifts(shifts, username)
    /\ Load(s, "respond", shift_id,
            [shifts EXCEPT ![IndexOf(shifts, shift_id)].status = new_status])

\* admin_approve_shifts, lines 968-1031, in a run whose seeding at lines 958-966
\* finds enough shifts: the run loads the store, lists the shift and approves it
\* in its copy
LoadApprove(s, shift_id, approval_type, start_text, end_text, rnd) ==
    /\ seed_if_needed(shifts, users, rnd) = shifts
    /\ approve_click(shifts, shift_id, approval_type, start_text, end_text).result = "approved"
    /\ Load(s, "approve", shift_id,
            approve_click(shifts, shift_id, approval_type, start_text, end_text).shifts)

\* admin_manage_shifts, lines 886-917: the run loads the store at line 892 and adds
\* the record shift_{len + 1} to its copy
LoadCreate(s, shift_date, selected_employees, shift_type, selected_admin, initial_shift_status) ==
    LET planned_start_time == SHIFT_TYPES[shift_type].start
        planned_end_time == auto_end_time(shift_type, planned_start_time)
        rec == new_shift(shifts, shift_date, shift_type, planned_start_time, planned_end_time,
                         selected_employees, selected_admin, initial_shift_status)
    IN  /\ selected_employees \subseteq EmployeesOf(users)
        /\ create_outcome(users, shifts, shift_date, selected_employees, shift_type,
                          planned_start_time, planned_end_time) = "created"
        /\ Created(shifts) < MaxCreated
        /\ Load(s, "create", rec.id, Put(shifts, rec))

\* save_shifts, line 62: the file is opened with 'w' and is empty from here on
OpenForWriting(s) ==
    /\ runs[s].pc = "loaded"
    /\ file_complete(runs)
    /\ runs' = [runs EXCEPT ![s].pc = "writing"]
    /\ UNCHANGED <<users, shifts, request, result, gen>>

\* save_shifts, line 63, and the message of the handler: the copy is in the file
FinishWriting(s) ==
    /\ runs[s].pc = "writing"
    /\ shifts' = runs[s].store
    /\ request' = [op |-> runs[s].op, session |-> s, id |-> runs[s].id]
    /\ result' = [error |-> "", payroll |-> <<>>]
    /\ runs' = [runs EXCEPT ![s] = IdleRun]
    /\ UNCHANGED <<users, gen>>

\* a run that only reads, the payroll of Timesheet & Pay (lines 144-152): json.load
\* raises JSONDecodeError on a file that is empty or written in part
ReadPayroll(s, username, start_date, end_date) ==
    /\ runs[s].pc = "idle"
    /\ username \in DOMAIN users
    /\ request' = [op |-> "read", session |-> s, id |-> <<>>]
    /\ result' = IF file_complete(runs)
                 THEN [error |-> "",
                       payroll |-> calculate_payroll_for_user(shifts, username,
                                       users[username].hourly_rate, start_date, end_date)]
                 ELSE [error |-> "JSONDecodeError", payroll |-> <<>>]
    /\ UNCHANGED <<users, shifts, runs, gen>>

----------------------------------------------------------------------------
(* Specifications.  Every one starts from the store main() leaves behind:   *)
(* the default users and the generated shifts.  They differ in the inputs   *)
(* the pages are given.                                                     *)

\* the generator drew every employee's primary type and no minute offsets
Init ==
    /\ users = initialize_default_users
    /\ shifts = generate_yearly_shifts_for_all_employees(users,
                    [e \in EmployeesOf(users) |-> users[e].primary_shift], 0, 0)
    /\ request = [op |-> "start"]
    /\ result = "ready"
    /\ runs = [s \in Sessions |-> IdleRun]
    /\ gen = GenIdle

(* Creation and the rest period: the Create Shift form for the first two   *)
(* employees, alone or together, with a typed start time on the generator's *)
(* day or today, and the answers of the employees to the shifts they are    *)
(* shown.                                                                   *)
RestDates == {GenDay, Today}
RestStarts == {<<14, 0>>, <<18, 0>>}
RestSelections == (SUBSET ({Emp(1), Emp(2)} \cap EmployeesOf(users))) \ {{}}

RestCreate ==
    \E d \in RestDates, S \in RestSelections, start \in RestStarts :
        \E t \in available_shift_types(users, S) :
            CreateShift(d, S, t, start, NoTime, NoName, "pending")

RestRespond ==
    \E u \in EmployeesOf(users), a \in {"accepted", "declined"} :
        \E id \in pending_shifts(shifts, u) :
            RespondToShift(u, id, a)

NextRest == RestCreate \/ RestRespond

SpecRest == Init /\ [][NextRest]_vars

(* Creation and the shift type: the Create Shift form for every choice of   *)
(* at most two of the first three employees and every shift type, on the    *)
(* day after today with the times the form fills in.                        *)
TypeSelections ==
    {S \in SUBSET ({Emp(1), Emp(2), Emp(3)} \cap EmployeesOf(users)) : Cardinality(S) <= 2}

TypeCreate ==
    \E S \in TypeSelections, t \in ShiftTypeIds :
        CreateShift(Today + 1, S, t, NoTime, NoTime, NoName, "pending")

NextTypes == TypeCreate

SpecTypes == Init /\ [][NextTypes]_vars

(* The pages of one working day.  The random draws of add_dummy_shift_data  *)
(* are the same for every record: the first employee, today, the late       *)
(* shift.  The dummy payroll amounts are 1000 and 9000.                     *)
DummyDraws == [k \in 1..(2 * DummyCount) |->
                 [employee |-> Emp(1), days |-> 0, shift_type |-> "late", admin |-> 1]]
PayrollDraws == [month |-> 1000, year |-> 9000]
ActualTexts == {<<<<15, 0>>, <<21, 0>>>>, <<<<15, 0>>, <<24, 0>>>>}

DayCreate ==
    \E st \in {"pending", "accepted", "approved"} :
        CreateShift(Today + 1, {Emp(1)}, users[Emp(1)].primary_shift, NoTime, NoTime, NoName, st)

DayVisitApprove == VisitApprovePage(DummyDraws)

(* SpecApproved: every way a record comes to be approved.  The admin        *)
(* creates shifts as approved, approves the shifts the Approve Shifts page  *)
(* lists, in full or with corrected times, and adds manual payroll entries. *)
ApprovedCreate ==
    CreateShift(Today + 1, {Emp(1)}, users[Emp(1)].primary_shift, NoTime, NoTime, NoName,
                "approved")

ApprovedApprove ==
    \E id \in pending_approval_shifts(seed_if_needed(shifts, users, DummyDraws)) :
        \/ ApproveShift(id, "Full Approval", NoTime, NoTime, DummyDraws)
        \/ \E texts \in ActualTexts :
              ApproveShift(id, "Partial Approval", texts[1], texts[2], DummyDraws)

\* every entry is submitted in a second of its own
ApprovedManual ==
    AddManualEntry(Admin(1), Emp(1), Today, "Bonus", 150, PayrollDraws, Manuals(shifts) + 1, 1000)

NextApproved == ApprovedCreate \/ ApprovedApprove \/ ApprovedManual

SpecApproved == Init /\ [][NextApproved]_vars

(* SpecScheduling: manual payroll entries and the rest period.  The admin   *)
(* adds a manual payroll entry dated today for the first employee and       *)
(* creates shifts for that employee on the day after today that start at    *)
(* 06:00 or at 18:00; the employees answer the shifts their page shows, and *)
(* the admin opens the Approve Shifts page.                                 *)
SchedulingCreate ==
    \E start \in {<<6, 0>>, <<18, 0>>}, st \in {"pending", "accepted", "approved"} :
        CreateShift(Today + 1, {Emp(1)}, users[Emp(1)].primary_shift, start, NoTime, NoName, st)

NextScheduling == SchedulingCreate \/ ApprovedManual \/ RestRespond \/ DayVisitApprove

SpecScheduling == Init /\ [][NextScheduling]_vars

(* SpecStatus: the status of a shift created through the form.  The admin  *)
(* creates a shift for one or both of the first two employees in any of the *)
(* three statuses; either employee presses Accept or Decline for any shift  *)
(* created through the form, also on a page another session has made stale. *)
StatusCreate ==
    \E S \in RestSelections, st \in {"pending", "accepted", "approved"} :
        \E t \in available_shift_types(users, S) :
            CreateShift(Today + 1, S, t, NoTime, NoTime, NoName, st)

StatusRespond ==
    \E id \in Ids(shifts), a \in {"accepted", "declined"} :
        \E u \in {Emp(1), Emp(2)} \cap EmployeesOf(users) :
            /\ id[1] = "shift"
            /\ RespondToShift(u, id, a)

NextStatus == StatusCreate \/ StatusRespond

SpecStatus == Init /\ [][NextStatus]_vars

(* SpecApprove: the Approve Shifts page and the answers of the employees.   *)
(* The admin creates pending shifts for the first employee; the employees   *)
(* accept or decline the pending shifts their page shows; the admin         *)
(* approves the shifts the Approve Shifts page lists after its seeding, in  *)
(* full, and those created through the form also with corrected times,     *)
(* well-formed or not.                                                      *)
ApproveCreate ==
    CreateShift(Today + 1, {Emp(1)}, users[Emp(1)].primary_shift, NoTime, NoTime, NoName,
                "pending")

ApproveListed ==
    \E id \in pending_approval_shifts(seed_if_needed(shifts, users, DummyDraws)) :
        \/ ApproveShift(id, "Full Approval", NoTime, NoTime, DummyDraws)
        \/ /\ id[1] = "shift"
           /\ \E texts \in ActualTexts :
                 ApproveShift(id, "Partial Approval", texts[1], texts[2], DummyDraws)

NextApprove == ApproveCreate \/ RestRespond \/ ApproveListed

SpecApprove == Init /\ [][NextApprove]_vars

(* SpecPayroll: the payroll of the first two employees.  The admin creates  *)
(* weekend night shifts in any status for the first employee or for the     *)
(* first two, and adds a manual payroll entry for the first employee; the   *)
(* employees accept or decline the pending shifts their page shows, and     *)
(* either of the two opens Timesheet & Pay with a custom range.             *)
PayrollRanges == {<<GenDay, Today>>, <<Today, Today>>, <<Today + 1, Today + 1>>,
                  <<GenDay, Today + 1>>}

PayrollCreate ==
    \E S \in {{Emp(1)}, {Emp(1), Emp(2)}}, st \in {"pending", "accepted", "approved"} :
        CreateShift(Today + 1, S, users[Emp(1)].secondary_shift, NoTime, NoTime, NoName, st)

PayrollTimesheet ==
    \E u \in {Emp(1), Emp(2)}, r \in PayrollRanges : Timesheet(u, r[1], r[2])

NextPayroll == PayrollCreate \/ RestRespond \/ ApprovedManual \/ PayrollTimesheet

SpecPayroll == Init /\ [][NextPayroll]_vars

(* SpecDuration: the length of a shift.  get_shift_duration is called for   *)
(* every pair of the times below, and the admin creates an approved shift   *)
(* for the first employee whose planned end is typed in as 14:00, 22:00 or  *)
(* 06:00, the start being 14:00.                                            *)
DurationTimes == {<<h, m>> : h \in {0, 6, 14, 22, 23}, m \in {0, 59}}

DurationCall == \E s \in DurationTimes, e \in DurationTimes : Duration(s, e)

DurationCreate ==
    \E e \in {<<14, 0>>, <<22, 0>>, <<6, 0>>} :
        CreateShift(Today + 1, {Emp(1)}, users[Emp(1)].primary_shift, <<14, 0>>, e, NoName,
                    "approved")

NextDuration == DurationCall \/ DurationCreate

SpecDuration == Init /\ [][NextDuration]_vars

(* SpecUsers: the user store.  The admin creates employees and the head    *)
(* admin adds, updates and deletes users; the usernames typed or clicked    *)
(* are those of the first employee, of a user not yet in the store and of   *)
(* the head admin, the primary shift types are morning and weekend_night.   *)
UsersPrimaries == {"morning", "weekend_night"}
NewEmployee == Emp(NumEmployees + 1)
NewAdmin == Admin(NumAdmins + 1)

UsersCreateEmployee ==
    \E n \in {Emp(1), NewEmployee}, filled \in BOOLEAN, p \in UsersPrimaries :
        \E sec \in secondary_shift_values(p) : CreateEmployee(n, filled, p, sec, 20)

UsersAdd ==
    \E n \in {HeadAdmin, NewAdmin}, role \in {"admin", "employee"}, p \in UsersPrimaries :
        \E sec \in secondary_shift_values(p) : AddUser(n, TRUE, role, p, sec, 25)

UsersUpdate ==
    \E u \in {Emp(1), HeadAdmin}, role \in {"admin", "employee"}, p \in UsersPrimaries :
        \E sec \in secondary_shift_values(p) : UpdateUser(u, role, p, sec, 20)

UsersDelete == \E u \in {HeadAdmin, NewEmployee, NewAdmin} : DeleteUser(u)

NextUsers == UsersCreateEmployee \/ UsersAdd \/ UsersUpdate \/ UsersDelete

SpecUsers == Init /\ [][NextUsers]_vars

(* SpecStore: every operation that writes the shift store, and the         *)
(* deletion of a user.  The admin creates pending shifts for the first      *)
(* employee and adds a manual payroll entry, the first employee accepts or  *)
(* declines the created shifts My Shifts shows, the admin opens the Approve *)
(* Shifts page, which seeds demo shifts, and approves in full the created   *)
(* shifts it lists, and the head admin deletes the last employee.           *)
StoreRespond ==
    \E a \in {"accepted", "declined"} :
        \E id \in pending_shifts(shifts, Emp(1)) :
            /\ id[1] = "shift"
            /\ RespondToShift(Emp(1), id, a)

StoreApprove ==
    \E id \in pending_approval_shifts(seed_if_needed(shifts, users, DummyDraws)) :
        /\ id[1] = "shift"
        /\ ApproveShift(id, "Full Approval", NoTime, NoTime, DummyDraws)

StoreDelete == DeleteUser(Emp(NumEmployees))

NextStore ==
    ApproveCreate \/ StoreRespond \/ StoreApprove \/ ApprovedManual \/ DayVisitApprove \/ StoreDelete

SpecStore == Init /\ [][NextStore]_vars

(* SpecManual: manual payroll entries submitted within one second.  An     *)
(* admin submits the form for either of the first two employees with any    *)
(* description and amount, empty and zero included, and random.randint      *)
(* draws one of two numbers; the admin also creates pending shifts for the  *)
(* first employee, who accepts or declines them, and approves them.         *)
ManualDescriptions == {"", "Bonus", "Correction"}
ManualAmounts == {0, 150, 200}
ManualDraws == {1000, 1001}

ManualSubmit ==
    \E u \in {Emp(1), Emp(2)}, d \in ManualDescriptions, a \in ManualAmounts, rnd \in ManualDraws :
        AddManualEntry(Admin(1), u, Today, d, a, PayrollDraws, 1, rnd)

NextManual == ManualSubmit \/ ApproveCreate \/ StoreRespond \/ StoreApprove

SpecManual == Init /\ [][NextManual]_vars

(* SpecAmounts: what the manual payroll form accepts.  An admin submits the *)
(* form for the first employee with or without a description and with the   *)
(* amount 0 or 150, every submission in a second of its own; the admin also *)
(* creates pending shifts for the first employee, who accepts or declines   *)
(* them, and approves them.                                                 *)
NextAmounts ==
    \/ \E d \in {"", "Bonus"}, a \in {0, 150} :
          AddManualEntry(Admin(1), Emp(1), Today, d, a, PayrollDraws, Manuals(shifts) + 1, 1000)
    \/ ApproveCreate
    \/ StoreRespond
    \/ StoreApprove

SpecAmounts == Init /\ [][NextAmounts]_vars

(* SpecSessions: two browser sessions at once.  Either session creates a    *)
(* pending shift for the first employee, accepts or declines for the first  *)
(* employee a demo shift My Shifts shows, approves a created shift Approve  *)
(* Shifts lists, in full or with corrected times, or reads the payroll of   *)
(* the first employee; the Approve Shifts page is opened, which seeds the   *)
(* demo shifts.                                                             *)
SessionsCreate ==
    \E s \in Sessions :
        LoadCreate(s, Today + 1, {Emp(1)}, users[Emp(1)].primary_shift, NoName, "pending")

SessionsRespond ==
    \E s \in Sessions, a \in {"accepted", "declined"} :
        \E id \in pending_shifts(shifts, Emp(1)) :
            /\ id[1] # "shift"
            /\ LoadRespond(s, Emp(1), id, a)

SessionsApprove ==
    \E s \in Sessions :
        \E id \in pending_approval_shifts(shifts) :
            /\ id[1] = "shift"
            /\ \/ LoadApprove(s, id, "Full Approval", NoTime, NoTime, DummyDraws)
               \/ LoadApprove(s, id, "Partial Approval", <<15, 0>>, <<21, 0>>, DummyDraws)

SessionsOpen == \E s \in Sessions : OpenForWriting(s)

SessionsFinish == \E s \in Sessions : FinishWriting(s)

SessionsRead == \E s \in Sessions : ReadPayroll(s, Emp(1), GenDay, Today + 1)

SessionsVisit == (\A s \in Sessions : runs[s].pc = "idle") /\ DayVisitApprove

NextSessions ==
    \/ SessionsCreate
    \/ SessionsRespond
    \/ SessionsApprove
    \/ SessionsOpen
    \/ SessionsFinish
    \/ SessionsRead
    \/ SessionsVisit

SpecSessions == Init /\ [][NextSessions]_vars

(* SpecQualified: the shift types of one employee.  The head admin gives   *)
(* the first employee any primary type and any secondary type the Update    *)
(* User form offers for it, none included; the admin asks for a shift of    *)
(* any type for that employee alone.                                        *)
QualifiedUpdate ==
    \E p \in ShiftTypeIds :
        \E sec \in secondary_shift_values(p) : UpdateUser(Emp(1), "employee", p, sec, 20)

QualifiedCreate ==
    \E t \in ShiftTypeIds :
        CreateShift(Today + 1, {Emp(1)}, t, NoTime, NoTime, NoName, "pending")

NextQualified == QualifiedUpdate \/ QualifiedCreate

SpecQualified == Init /\ [][NextQualified]_vars

(* SpecGenerator: the first start.  main() finds no shift and runs the      *)
(* generator over the default users.  For the last employee the generator   *)
(* draws any days of the week, either allowed type, any day of the year in  *)
(* the fill-up loop and the least, the greatest or no offset, the same for  *)
(* both actual times; for the employees before, every day of the week, the  *)
(* primary type and no offset.                                              *)
InitGenerator ==
    /\ users = initialize_default_users
    /\ shifts = <<>>
    /\ request = [op |-> "start"]
    /\ result = "ready"
    /\ runs = [s \in Sessions |-> IdleRun]
    /\ gen = gen_begin(InOrder(EmployeesOf(initialize_default_users)), <<>>)

GenOffsets == {-10, 0, 10}

GenFree == gen.emps # <<>> /\ Head(gen.emps) = Emp(NumEmployees)

GenWeekBegin ==
    \E D \in SUBSET (0..(GenWeekDays - 1)) :
        /\ gen.pc = "week"
        /\ GenFree \/ D = 0..(GenWeekDays - 1)
        /\ WeekBegin(D)

GenWeekShift ==
    \E t \in ShiftTypeIds, o \in GenOffsets :
        /\ gen.pc = "day"
        /\ GenFree \/ (t = users[Head(gen.emps)].primary_shift /\ o = 0)
        /\ WeekShift(t, o, o)

GenFillShift ==
    \E k \in 0..(GenYearDays - 1), t \in ShiftTypeIds, o \in GenOffsets :
        FillShift(k, t, o, o)

NextGenerator == GenWeekBegin \/ GenWeekShift \/ WeekEnd \/ GenFillShift \/ EmployeeEnd

SpecGenerator == InitGenerator /\ [][NextGenerator]_vars

(* SpecFlags: status and approved flag.  The admin creates a shift for the  *)
(* first employee in any of the three statuses, the employees accept or     *)
(* decline the pending shifts their page shows, the admin opens the Approve *)
(* Shifts page, which seeds demo shifts, and approves in full what it       *)
(* lists; before any of this the admin adds manual payroll entries.         *)
FlagsApprove ==
    \E id \in pending_approval_shifts(seed_if_needed(shifts, users, DummyDraws)) :
        ApproveShift(id, "Full Approval", NoTime, NoTime, DummyDraws)

NextFlags ==
    \/ DayCreate
    \/ RestRespond
    \/ FlagsApprove
    \/ DayVisitApprove
    \/ /\ \A i \in 1..Len(shifts) : shifts[i].id[1] \notin {"shift", "dummy_pending", "dummy_accepted"}
       /\ ApprovedManual

SpecFlags == Init /\ [][NextFlags]_vars

(* Spec: the pages of one working day, where a button may also be pressed   *)
(* on a page another session has made stale: Accept or Decline by an        *)
(* employee for any stored shift assigned to them, Approve for any stored   *)
(* shift that is not a manual entry.                                        *)
StaleRespond ==
    \E id \in Ids(shifts), a \in {"accepted", "declined"} :
        \E u \in Get(shifts, id).assigned_employees \cap EmployeesOf(users) :
            /\ Get(shifts, id).shift_type # "manual_payroll"
            /\ RespondToShift(u, id, a)

StaleApprove ==
    \E id \in Ids(shifts) :
        /\ Get(shifts, id).shift_type # "manual_payroll"
        /\ \/ ApproveShift(id, "Full Approval", NoTime, NoTime, DummyDraws)
           \/ /\ id[1] = "shift"
              /\ \E texts \in ActualTexts :
                    ApproveShift(id, "Partial Approval", texts[1], texts[2], DummyDraws)

Next == DayCreate \/ StaleRespond \/ StaleApprove \/ DayVisitApprove \/ ApprovedManual

Spec == Init /\ [][Next]_vars

----------------------------------------------------------------------------
(* The rest period as the specification states it (section 4.4), used to    *)
(* state the claims about it.                                               *)

SetMax(S) == CHOOSE x \in S : \A y \in S : y <= x

\* the true end instant of a shift: its date and end time, a day later when the
\* end is not after the start
TrueEnd(s) ==
    s.date * 1440 + strptime(s.planned_end)
        + (IF strptime(s.planned_end) <= strptime(s.planned_start) THEN 1440 ELSE 0)

\* the true end instants, at or before start_dt, of the shifts of ss assigned to e
PriorEnds(ss, e, start_dt) ==
    {TrueEnd(ss[i]) : i \in {j \in 1..Len(ss) :
        e \in ss[j].assigned_employees /\ TrueEnd(ss[j]) <= start_dt}}

RestSatisfied(ss, e, start_dt) ==
    \/ PriorEnds(ss, e, start_dt) = {}
    \/ start_dt - SetMax(PriorEnds(ss, e, start_dt)) >= 12 * 60

\* the employees of the create request req that fail the rest check against ss
Failing(ss, req) ==
    {e \in req.employees :
        ~RestSatisfied(ss, e, req.date * 1440 + strptime(req.planned_start))}

\* the shifts that are not declined
NotDeclined(s) == s.status # "declined"

IsCreateAttempt(req, res) ==
    /\ req.op = "create"
    /\ res \in {"created", "downtime"}

----------------------------------------------------------------------------
(* Claims C4-C6, under SpecRest *)

\* C4: a Create Shift run in which at least one selected employee fails the rest
\* check leaves the shift store as it was and creates nothing; a run that creates
\* a shift appends one record, carrying the proposed times unchanged, and every
\* selected employee passed the check.
C4_RestViolationRefuses ==
    [][ IsCreateAttempt(request', result') =>
            /\ Failing(shifts, request') # {} => (shifts' = shifts /\ result' = "downtime")
            /\ result' = "created" =>
                /\ Failing(shifts, request') = {}
                /\ Len(shifts') = Len(shifts) + 1
                /\ SubSeq(shifts', 1, Len(shifts)) = shifts
                /\ shifts'[Len(shifts')].planned_start = request'.planned_start
                /\ shifts'[Len(shifts')].planned_end = request'.planned_end
                /\ shifts'[Len(shifts')].date = request'.date
      ]_vars

\* C4 witness: a refused creation for two employees of whom one passes the rest
\* check and one fails it.
C4_Witness ==
    /\ request.op = "create"
    /\ result = "downtime"
    /\ Cardinality(request.employees) = 2
    /\ Cardinality(Failing(shifts, request)) = 1

\* C5: for one selected employee, the creation is accepted exactly when no shift of
\* the employee has a true end at or before the proposed start, or the latest such
\* end lies at least 12 hours before it.  After a shift D 22:00 -> D+1 06:00 a start
\* at D+1 14:00 is rejected, and a start at D+1 18:00 is accepted when no other
\* shift of the employee ends in between.
C5_RestCheckExact ==
    [][ (IsCreateAttempt(request', result') /\ Cardinality(request'.employees) = 1) =>
            LET e == CHOOSE x \in request'.employees : TRUE
                start_dt == request'.date * 1440 + strptime(request'.planned_start)
                ends == PriorEnds(shifts, e, start_dt)
                after_night == \E i \in 1..Len(shifts) :
                                  /\ e \in shifts[i].assigned_employees
                                  /\ shifts[i].date + 1 = request'.date
                                  /\ shifts[i].planned_start = <<22, 0>>
                                  /\ shifts[i].planned_end = <<6, 0>>
            IN  /\ result' = "created" <=>
                      (ends = {} \/ start_dt - SetMax(ends) >= 12 * 60)
                /\ (after_night /\ request'.planned_start = <<14, 0>>) => result' = "downtime"
                /\ (/\ after_night
                    /\ request'.planned_start = <<18, 0>>
                    /\ \A x \in ends : x <= request'.date * 1440 + 6 * 60) => result' = "created"
      ]_vars

\* C5 witness: an employee whose latest prior shift is the night shift of the day
\* before (true end today 06:00) is given a shift starting today at 18:00.
C5_Witness ==
    /\ request.op = "create"
    /\ result = "created"
    /\ request.employees = {Emp(2)}
    /\ request.planned_start = <<18, 0>>
    /\ \E i \in 1..Len(shifts) - 1 :
          /\ Emp(2) \in shifts[i].assigned_employees
          /\ shifts[i].shift_type = "night"
          /\ shifts[i].date + 1 = request.date
          /\ TrueEnd(shifts[i]) = SetMax(PriorEnds(SubSeq(shifts, 1, Len(shifts) - 1), Emp(2),
                                                   request.date * 1440 + 18 * 60))

\* C6: a declined shift never counts as the latest prior shift: whenever a creation
\* is refused for downtime, some selected employee fails the rest check against
\* the shifts that are not declined.
C6_DeclinedIgnored ==
    (request.op = "create" /\ result = "downtime") =>
        Failing(SelectSeq(shifts, NotDeclined), request) # {}

----------------------------------------------------------------------------
(* Claims C1-C3 and C10: the status of a stored shift *)

AllowedTransitions ==
    { <<"pending", "accepted">>, <<"pending", "declined">>,
      <<"pending", "approved">>, <<"accepted", "approved">> }

\* C1: in every step, the status of a stored shift stays as it is or changes along
\* pending -> accepted, pending -> declined, pending -> approved or
\* accepted -> approved; so an approved or declined shift keeps its status.
C1_StatusTransitions ==
    [][ \A id \in Ids(shifts) \cap Ids(shifts') :
            \/ Get(shifts', id).status = Get(shifts, id).status
            \/ <<Get(shifts, id).status, Get(shifts', id).status>> \in AllowedTransitions
      ]_vars

\* C2: approval is final: a stored shift with approved = true is still stored after
\* every step, still approved and with the same actual start and end.
C2_ApprovalFinal ==
    [][ \A id \in Ids(shifts) :
            Get(shifts, id).approved =>
                /\ id \in Ids(shifts')
                /\ Get(shifts', id).approved
                /\ Get(shifts', id).actual_start = Get(shifts, id).actual_start
                /\ Get(shifts', id).actual_end = Get(shifts, id).actual_end
      ]_vars

\* C3: every stored shift with approved = true has an actual start and an actual
\* end that are not None or, being a manual payroll entry, a manual amount.
C3_ApprovedHasActuals ==
    \A i \in 1..Len(shifts) :
        shifts[i].approved =>
            \/ shifts[i].actual_start # NoTime /\ shifts[i].actual_end # NoTime
            \/ shifts[i].shift_type = "manual_payroll" /\ "manual_amount" \in DOMAIN shifts[i]

\* C3 witness: the store holds a shift created as approved, a demo shift approved
\* with corrected times and a manual payroll entry.
C3_Witness ==
    /\ \E i \in 1..Len(shifts) : shifts[i].id[1] = "shift" /\ shifts[i].approved
    /\ \E i \in 1..Len(shifts) :
          /\ shifts[i].id[1] \in {"dummy_pending", "dummy_accepted"}
          /\ shifts[i].approved
          /\ shifts[i].actual_start # shifts[i].planned_start
    /\ \E i \in 1..Len(shifts) : shifts[i].id[1] = "manual_payroll" /\ shifts[i].approved

\* C10: an invalid transition is rejected and leaves the record as it was: Approve
\* on a declined shift, and Accept or Decline on a shift that is not pending (an
\* accepted one included).
C10_InvalidTransitionsRejected ==
    [][ /\ ( /\ request'.op = "approve"
             /\ request'.id \in Ids(shifts)
             /\ Get(shifts, request'.id).status = "declined" ) =>
                /\ result' = "not_offered"
                /\ Get(shifts', request'.id) = Get(shifts, request'.id)
        /\ ( /\ request'.op = "respond"
             /\ request'.id \in Ids(shifts)
             /\ Get(shifts, request'.id).status # "pending" ) =>
                /\ result' = "not_offered"
                /\ shifts' = shifts
      ]_vars

----------------------------------------------------------------------------
(* Claims C7-C9, under SpecTypes *)

\* the shift types a user is qualified for: the primary and, if set, the secondary
Qualified(u) ==
    IF u.secondary_shift = NoName THEN {u.primary_shift}
    ELSE {u.primary_shift, u.secondary_shift}

\* C7: a shift created through the form has a type every one of its assigned
\* employees is qualified for.
C7_TypeQualifiedForAll ==
    (request.op = "create" /\ result = "created") =>
        \A e \in shifts[Len(shifts)].assigned_employees :
            shifts[Len(shifts)].shift_type \in Qualified(users[e])

\* C8: with two employees selected whose qualified sets are disjoint, no shift is
\* created.
C8_DisjointRefused ==
    ( /\ request.op = "create"
      /\ Cardinality(request.employees) = 2
      /\ \A e1, e2 \in request.employees :
            e1 # e2 => Qualified(users[e1]) \cap Qualified(users[e2]) = {} ) =>
        result # "created"

\* C9: for a single selected employee, a shift type that is neither the primary
\* nor the secondary of the employee cannot be chosen: the form does not offer it
\* and the store stays as it was; a shift created for one employee has a type the
\* employee is qualified for.
C9_SingleEmployeeType ==
    [][ (request'.op = "create" /\ Cardinality(request'.employees) = 1) =>
            LET e == CHOOSE x \in request'.employees : TRUE
            IN  /\ request'.shift_type \notin Qualified(users[e]) =>
                      (result' = "not_offered" /\ shifts' = shifts)
                /\ result' = "created" =>
                      shifts'[Len(shifts')].shift_type \in Qualified(users[e])
      ]_vars

\* C9 witness: a night shift asked for an employee whose primary is
\* weekend_morning and whose secondary is morning is not offered.
C9_Witness ==
    /\ request.op = "create"
    /\ request.employees = {Emp(3)}
    /\ request.shift_type = "night"
    /\ users[Emp(3)].primary_shift = "weekend_morning"
    /\ users[Emp(3)].secondary_shift = "morning"
    /\ result = "not_offered"

----------------------------------------------------------------------------
(* Claims C11 and C12, under SpecStatus *)

\* C11: a successful creation stores the chosen initial status; with approved the
\* record has approved = true and actual times equal to the planned times, with
\* pending or accepted it has approved = false and actual times None.
C11_InitialStatusStored ==
    (request.op = "create" /\ result = "created") =>
        LET r == shifts[Len(shifts)]
        IN  /\ r.status = request.status
            /\ r.planned_start = request.planned_start
            /\ r.planned_end = request.planned_end
            /\ request.status = "approved" =>
                  /\ r.approved
                  /\ r.actual_start = r.planned_start
                  /\ r.actual_end = r.planned_end
            /\ request.status \in {"pending", "accepted"} =>
                  /\ ~r.approved
                  /\ r.actual_start = NoTime
                  /\ r.actual_end = NoTime

\* C11 witness: a late shift created as approved for the first employee holds
\* 14:00 and 22:00 as its actual times.
C11_Witness ==
    /\ request.op = "create"
    /\ request.status = "approved"
    /\ result = "created"
    /\ shifts[Len(shifts)].id[1] = "shift"
    /\ shifts[Len(shifts)].approved
    /\ shifts[Len(shifts)].actual_start = <<14, 0>>
    /\ shifts[Len(shifts)].actual_end = <<22, 0>>
\* C12: Accept and Decline act only for an employee among the shift's assigned
\* employees and only while its status is pending; then the status of that shift
\* becomes accepted or declined and nothing else in the store changes; otherwise
\* the store stays as it was.
C12_RespondFrame ==
    [][ request'.op = "respond" =>
            LET id == request'.id
                enabled == /\ request'.username \in Get(shifts, id).assigned_employees
                           /\ Get(shifts, id).status = "pending"
            IN  /\ id \in Ids(shifts)
                /\ enabled =>
                      /\ result' = request'.new_status
                      /\ request'.new_status \in {"accepted", "declined"}
                      /\ shifts' = [shifts EXCEPT ![IndexOf(shifts, id)] =
                                       [Get(shifts, id) EXCEPT !.status = request'.new_status]]
                      /\ Get(shifts', id).approved = Get(shifts, id).approved
                      /\ Get(shifts', id).actual_start = Get(shifts, id).actual_start
                      /\ Get(shifts', id).actual_end = Get(shifts, id).actual_end
                /\ ~enabled => (result' = "not_offered" /\ shifts' = shifts)
      ]_vars

\* C12 witness: the second employee has accepted a pending shift assigned to both
\* employees; the record is accepted, not approved and without actual times.
C12_Witness ==
    /\ request.op = "respond"
    /\ request.username = Emp(2)
    /\ result = "accepted"
    /\ Get(shifts, request.id).assigned_employees = {Emp(1), Emp(2)}
    /\ Get(shifts, request.id).status = "accepted"
    /\ ~Get(shifts, request.id).approved
    /\ Get(shifts, request.id).actual_start = NoTime

----------------------------------------------------------------------------
(* Claim C13, under SpecApprove *)

----------------------------------------------------------------------------
(* Claims C14-C17, under SpecPayroll *)

\* the store without the shifts that are not approved
ApprovedOnly(ss) == SelectSeq(ss, LAMBDA x : x.approved)

PayrollUsers == {Emp(1), Emp(2), Admin(1)} \cap DOMAIN users
PayrollRates == {20, 25}

\* C14: unapproved shifts never contribute to payroll: for every user, rate and
\* date range, the payroll of the store equals the payroll of the store without
\* its unapproved shifts, in total hours, total pay and line items; so does the
\* payroll the Timesheet page has shown.
C14_UnapprovedNeverCount ==
    /\ \A u \in PayrollUsers, rate \in PayrollRates, r \in PayrollRanges :
          calculate_payroll_for_user(shifts, u, rate, r[1], r[2])
            = calculate_payroll_for_user(ApprovedOnly(shifts), u, rate, r[1], r[2])
    /\ request.op = "timesheet" =>
          result = calculate_payroll_for_user(ApprovedOnly(shifts), request.username,
                        request.hourly_rate, request.start_date, request.end_date)

\* C14 witness: the page has shown the payroll of a user over a range that holds
\* both an approved and a pending shift of the user.
C14_Witness ==
    /\ request.op = "timesheet"
    /\ result.total_hours > 0
    /\ \E i \in 1..Len(shifts) :
          /\ request.username \in shifts[i].assigned_employees
          /\ shifts[i].status = "pending"
          /\ request.start_date <= shifts[i].date
          /\ shifts[i].date <= request.end_date

\* the records of ss that count for username in the range
CountedRecords(ss, username, start_date, end_date) ==
    {i \in 1..Len(ss) :
        /\ username \in ss[i].assigned_employees
        /\ ss[i].approved
        /\ start_date <= ss[i].date
        /\ ss[i].date <= end_date}

RECURSIVE SumOver(_, _)
SumOver(I, f) ==
    IF I = {} THEN 0
    ELSE LET i == CHOOSE x \in I : TRUE IN f[i] + SumOver(I \ {i}, f)

\* C15: manual payroll entries give no hours and their amount as it is, whatever
\* the hourly rate: when the counted records of a user in a range are all manual
\* entries, of amounts summing to X, the payroll has total hours 0 and total pay X
\* (here X * 60, pay being counted in sixtieths of a euro).
C15_ManualEntriesVerbatim ==
    \A u \in PayrollUsers, rate \in PayrollRates, r \in PayrollRanges :
        LET I == CountedRecords(shifts, u, r[1], r[2])
            p == calculate_payroll_for_user(shifts, u, rate, r[1], r[2])
        IN  (\A i \in I : shifts[i].shift_type = "manual_payroll") =>
                /\ ~p.exception
                /\ p.total_hours = 0
                /\ p.total_pay = 60 * SumOver(I, [i \in I |-> shifts[i].manual_amount])
                /\ Len(p.detailed_shifts) = Cardinality(I)
                /\ \A k \in 1..Len(p.detailed_shifts) :
                      /\ p.detailed_shifts[k].Hours = <<>>
                      /\ p.detailed_shifts[k].ShiftType = "Manual Entry"

\* C15 witness: the page has shown the first employee a range whose only counted
\* records are manual entries: no hours and the amounts as pay.
C15_Witness ==
    /\ request.op = "timesheet"
    /\ request.username = Emp(1)
    /\ request.hourly_rate = 20
    /\ request.start_date = Today
    /\ request.end_date = Today
    /\ \E i \in 1..Len(shifts) : shifts[i].id[1] = "manual_payroll" /\ shifts[i].date = Today
    /\ result.total_hours = 0
    /\ result.total_pay >= 150 * 60
    /\ result.detailed_shifts # <<>>

\* the k-th smallest element of a set of numbers
RECURSIVE Kth(_, _)
Kth(I, k) ==
    LET lo == CHOOSE x \in I : \A y \in I : x <= y
    IN  IF k = 1 THEN lo ELSE Kth(I \ {lo}, k - 1)

\* what a counted record contributes: minutes, and pay in sixtieths of a euro
HoursOf(s) ==
    IF s.shift_type = "manual_payroll" THEN 0
    ELSE get_shift_duration(s.actual_start, s.actual_end)

PayOf(s, rate) ==
    IF s.shift_type = "manual_payroll" THEN 60 * s.manual_amount
    ELSE get_shift_duration(s.actual_start, s.actual_end) * rate

\* C16: the payroll of a user for a rate and a range counts exactly the shifts
\* that list the user among the assigned employees, are approved and whose own
\* date lies in the range, both ends included; it has one line item for each, in
\* the order of the store; a regular shift gives the hours between its actual
\* start and end and hours * rate as pay; the totals are the sums over the
\* counted shifts.
C16_PayrollCountsExactly ==
    \A u \in PayrollUsers, rate \in PayrollRates, r \in PayrollRanges :
        LET I == CountedRecords(shifts, u, r[1], r[2])
            p == calculate_payroll_for_user(shifts, u, rate, r[1], r[2])
        IN  /\ ~p.exception
            /\ Len(p.detailed_shifts) = Cardinality(I)
            /\ \A k \in 1..Len(p.detailed_shifts) :
                  LET s == shifts[Kth(I, k)]
                  IN  /\ p.detailed_shifts[k].Date = s.date
                      /\ s.shift_type # "manual_payroll" =>
                            /\ p.detailed_shifts[k].ActualStart = s.actual_start
                            /\ p.detailed_shifts[k].ActualEnd = s.actual_end
                            /\ p.detailed_shifts[k].Hours = <<format_hours(HoursOf(s))>>
                      /\ p.detailed_shifts[k].Pay = format_pay(PayOf(s, rate))
            /\ p.total_hours = SumOver(I, [i \in I |-> HoursOf(shifts[i])])
            /\ p.total_pay = SumOver(I, [i \in I |-> PayOf(shifts[i], rate)])

\* C16 witness: the page has shown the second employee the one day of an approved
\* weekend night shift (18:00 to 06:00 of the next day) assigned to both
\* employees: 12 hours at the rate of 20.
C16_Witness ==
    /\ request.op = "timesheet"
    /\ request.username = Emp(2)
    /\ request.start_date = Today + 1
    /\ request.end_date = Today + 1
    /\ \E i \in 1..Len(shifts) :
          /\ shifts[i].assigned_employees = {Emp(1), Emp(2)}
          /\ shifts[i].approved
          /\ shifts[i].date = Today + 1
          /\ shifts[i].actual_start = <<18, 0>>
          /\ shifts[i].actual_end = <<6, 0>>
    /\ result.total_hours >= 12 * 60
    /\ result.total_pay = result.total_hours * 20

----------------------------------------------------------------------------
(* Claims C18-C20, under SpecDuration; durations are in minutes *)

\* every well-formed HH:MM time
AllTimes == {<<h, m>> : h \in 0..23, m \in 0..59}

\* C18: for well-formed times s and e the duration from s to e is not negative
\* and, when s and e differ, it is 24 hours less the duration from e to s; from
\* 22:00 to 06:00 it is 8 hours.  Checked for the pair of the call made and for
\* its start time against every well-formed time.
C18_WrapSymmetry ==
    request.op = "duration" =>
        /\ result >= 0
        /\ request.start # request.end =>
              result = 24 * 60 - get_shift_duration(request.end, request.start)
        /\ (request.start = <<22, 0>> /\ request.end = <<6, 0>>) => result = 8 * 60
        /\ \A t \in AllTimes :
              /\ get_shift_duration(request.start, t) >= 0
              /\ get_shift_duration(t, request.start) >= 0
              /\ t # request.start =>
                    get_shift_duration(request.start, t)
                      = 24 * 60 - get_shift_duration(t, request.start)

\* C18 witness: the duration from 22:00 to 06:00 has been computed as 8 hours.
C18_Witness ==
    /\ request.op = "duration"
    /\ request.start = <<22, 0>>
    /\ request.end = <<6, 0>>
    /\ result = 480

\* C19: the duration adds 24 hours to the end whenever the end is not after the
\* start, so from a time to itself it is 24 hours and every duration is more than
\* 0 and at most 24 hours.
C19_EqualTimesFullDay ==
    request.op = "duration" =>
        /\ request.start = request.end => result = 24 * 60
        /\ result > 0
        /\ result <= 24 * 60

\* C20: for every stored shift that is not a manual entry, the end instant the
\* rest check computes is the start instant plus the duration pay is computed
\* from, the start and the end being equal or not.
C20_SameMidnightRule ==
    \A i \in 1..Len(shifts) :
        shifts[i].shift_type # "manual_payroll" =>
            shift_end_dt(shifts[i])
              = combine(shifts[i].date, shifts[i].planned_start)
                  + get_shift_duration(shifts[i].planned_start, shifts[i].planned_end)

----------------------------------------------------------------------------
(* Claims C23-C25, under SpecUsers *)

\* the compatibility set of a primary shift type
CompatibilitySet(primary_shift) ==
    {SHIFT_COMPATIBILITY[primary_shift][k] : k \in 1..Len(SHIFT_COMPATIBILITY[primary_shift])}

\* C23: in every reachable state the secondary shift type of every user is absent
\* or in the compatibility set of the user's primary shift type.
C23_SecondaryCompatible ==
    \A u \in DOMAIN users :
        \/ users[u].secondary_shift = NoName
        \/ users[u].secondary_shift \in CompatibilitySet(users[u].primary_shift)

\* C23 witness: the first employee has been updated to an admin with primary
\* weekend_night and secondary night.
C23_Witness ==
    /\ request.op = "update_user"
    /\ request.username = Emp(1)
    /\ result = "user_updated"
    /\ users[Emp(1)].role = "admin"
    /\ users[Emp(1)].primary_shift = "weekend_night"
    /\ users[Emp(1)].secondary_shift = "night"

\* C24: the head admin is in the store in every reachable state, with the role
\* head_admin, and is the only user with that role.
C24_OneHeadAdmin ==
    /\ HeadAdmin \in DOMAIN users
    /\ users[HeadAdmin] = initialize_default_users[HeadAdmin]
    /\ \A u \in DOMAIN users : users[u].role = "head_admin" => u = HeadAdmin

\* C24 witness: an update of the head admin has been asked for and not offered,
\* with an added user in the store.
C24_Witness ==
    /\ request.op = "update_user"
    /\ request.username = HeadAdmin
    /\ result = "not_offered"
    /\ Cardinality(DOMAIN users) > DefaultUserCount

\* C25: creating a user under a username that is in the user store is refused and
\* leaves the user store as it was, from the admin's form and from the head
\* admin's.
C25_DuplicateUsernameRefused ==
    [][ (request'.op \in {"create_employee", "add_user"} /\ request'.username \in DOMAIN users) =>
            /\ result' # "user_added"
            /\ users' = users
      ]_vars

\* C25 witness: the admin's form has refused the username of the first employee,
\* whose record is the default one.
C25_Witness ==
    /\ request.op = "create_employee"
    /\ request.username = Emp(1)
    /\ result = "username_exists"
    /\ Emp(1) \in DOMAIN users
    /\ users[Emp(1)] = initialize_default_users[Emp(1)]

----------------------------------------------------------------------------
(* Claim C28, under SpecRest *)

\* the start instant of a stored shift
TrueStart(s) == s.date * 1440 + strptime(s.planned_start)

\* C28: the rest check looks only backward.  A creation is refused for downtime
\* only when some selected employee has a shift whose true end is at or before the
\* proposed start and less than 12 hours before it; when every shift of the
\* selected employees ends after the proposed start (it overlaps the new shift or
\* lies after it), the creation succeeds, also when such a shift has the same date
\* and start time or starts less than 12 hours after the proposed start.
C28_RestLooksBackward ==
    [][ IsCreateAttempt(request', result') =>
            LET start_dt == request'.date * 1440 + strptime(request'.planned_start)
                mine == {i \in 1..Len(shifts) :
                            shifts[i].assigned_employees \cap request'.employees # {}}
            IN  /\ result' = "downtime" =>
                      \E i \in mine : /\ TrueEnd(shifts[i]) <= start_dt
                                      /\ start_dt - TrueEnd(shifts[i]) < 12 * 60
                /\ (\A i \in mine : TrueEnd(shifts[i]) > start_dt) =>
                      /\ result' = "created"
                      /\ Len(shifts') = Len(shifts) + 1
      ]_vars

\* C28 witness: a shift has been created for two employees of whom one has a shift
\* on the same date at the same start time and the other a shift that starts less
\* than 12 hours after the new one.
C28_Witness ==
    /\ request.op = "create"
    /\ result = "created"
    /\ request.employees = {Emp(1), Emp(2)}
    /\ LET start_dt == request.date * 1440 + strptime(request.planned_start)
           before == SubSeq(shifts, 1, Len(shifts) - 1)
       IN  /\ \E i \in 1..Len(before) :
                 /\ Emp(1) \in before[i].assigned_employees
                 /\ TrueStart(before[i]) = start_dt
           /\ \E i \in 1..Len(before) :
                 /\ Emp(2) \in before[i].assigned_employees
                 /\ TrueStart(before[i]) > start_dt
                 /\ TrueStart(before[i]) - start_dt < 12 * 60

----------------------------------------------------------------------------
(* Claim C29, under SpecTypes *)

\* C29: a Create Shift run with no employee selected is refused with the request to
\* select employees, whatever shift type is asked for, and leaves the shift store
\* as it was; no stored shift of the form has an empty set of employees.
C29_EmptySelectionRefused ==
    [][ /\ (request'.op = "create" /\ request'.employees = {}) =>
              /\ result' = "select_employees"
              /\ shifts' = shifts
        /\ \A i \in 1..Len(shifts') : shifts'[i].assigned_employees # {}
      ]_vars

\* C29 witness: a creation with no employee selected has been refused while the
\* store holds a shift created with the form.
C29_Witness ==
    /\ request.op = "create"
    /\ request.employees = {}
    /\ result = "select_employees"
    /\ Created(shifts) > 0

----------------------------------------------------------------------------
(* Claim C26, under SpecStore *)

\* C26: shift records are never deleted.  The store is never empty, and every
\* step (create, accept, decline, approve, manual entry, demo seeding, user
\* deletion) keeps every shift identifier of the store; the deletion of a user
\* leaves the shift store as it was.
C26_IdsOnlyGrow ==
    [][ /\ shifts # <<>>
        /\ Ids(shifts) \subseteq Ids(shifts')
        /\ Len(shifts') >= Len(shifts)
        /\ request'.op = "delete_user" => shifts' = shifts
      ]_vars

\* C26 witness: the last employee has been deleted; the store holds the shift the
\* generator gave that employee, demo shifts, a shift created with the form that
\* is now approved, and a manual payroll entry.
C26_Witness ==
    /\ request.op = "delete_user"
    /\ result = "user_deleted"
    /\ Emp(NumEmployees) \notin DOMAIN users
    /\ \E i \in 1..Len(shifts) : Emp(NumEmployees) \in shifts[i].assigned_employees
    /\ \E i \in 1..Len(shifts) : shifts[i].id[1] = "shift" /\ shifts[i].status = "approved"
    /\ \E i \in 1..Len(shifts) : shifts[i].id[1] = "manual_payroll"
    /\ \E i \in 1..Len(shifts) : shifts[i].id[1] \notin {"shift", "manual_payroll", "auto"}

----------------------------------------------------------------------------
(* Claim C27, under SpecManual *)

\* C27: a manual payroll entry is stored approved and never transitions.  In every
\* state every manual entry has status approved and approved = TRUE and is offered
\* neither on My Shifts nor on Approve Shifts, and every step leaves it in the store
\* with the status, approved flag, amount and description it had.
C27_ManualEntryFixed ==
    [][ \A i \in 1..Len(shifts) :
            shifts[i].shift_type = "manual_payroll" =>
                /\ shifts[i].status = "approved"
                /\ shifts[i].approved
                /\ \A u \in DOMAIN users : shifts[i].id \notin pending_shifts(shifts, u)
                /\ shifts[i].id \notin pending_approval_shifts(shifts)
                /\ \E j \in 1..Len(shifts') :
                      /\ shifts'[j].id = shifts[i].id
                      /\ shifts'[j].status = shifts[i].status
                      /\ shifts'[j].approved = shifts[i].approved
                      /\ shifts'[j].manual_amount = shifts[i].manual_amount
                      /\ shifts'[j].description = shifts[i].description
      ]_vars

----------------------------------------------------------------------------
(* Claims C21, C22 and C30, under SpecSessions *)

\* session s completes its save in this step
Saves(s) == runs[s].pc = "writing" /\ runs'[s].pc = "idle"

\* C21: of the mutations two sessions make of one shift, at most one takes effect:
\* an accept or decline is saved only over a store in which the shift is still
\* pending, and an approval only over a store in which the shift is not yet
\* approved, so that a shift is never approved twice with different actual times
\* and never both accepted and declined.
C21_OneMutationPerShift ==
    [][ \A s \in Sessions :
            (Saves(s) /\ runs[s].id \in Ids(shifts)) =>
                /\ runs[s].op = "respond" => Get(shifts, runs[s].id).status = "pending"
                /\ runs[s].op = "approve" => ~Get(shifts, runs[s].id).approved
      ]_vars

\* C22: a read of the shift store never fails on, and never sees, an empty or
\* partly written store, whatever the other session is doing.
C22_ReadsSeeCompleteStore ==
    request.op = "read" => result.error = ""

\* C30: the save of one session keeps what the other has saved meanwhile: it
\* leaves every record other than its own as the store holds it, and the save of a
\* created shift adds a record to the store.
C30_MutationsKept ==
    [][ \A s \in Sessions :
            Saves(s) =>
                /\ \A i \in 1..Len(shifts) :
                      shifts[i].id # runs[s].id =>
                          (i <= Len(shifts') /\ shifts'[i] = shifts[i])
                /\ runs[s].op = "create" => Len(shifts') = Len(shifts) + 1
      ]_vars

----------------------------------------------------------------------------
(* Claim C31, under SpecQualified *)

\* C31 as stated: for a single selected employee, the shift types that may be
\* chosen at creation are the primary type and every type of the compatibility set
\* of the primary type.
C31_CompatibleTypesSelectable ==
    [][ (request'.op = "create" /\ Cardinality(request'.employees) = 1) =>
            LET e == CHOOSE x \in request'.employees : TRUE
            IN  result' # "not_offered" <=>
                    request'.shift_type \in
                        {users[e].primary_shift} \cup CompatibilitySet(users[e].primary_shift)
      ]_vars

\* C31 as amended: for a single selected employee, the shift types that may be
\* chosen at creation are the primary type and the secondary type stored for the
\* employee, when one is stored: every other type is not offered, also a type of
\* the compatibility set of the primary type.
C31_StoredTypesSelectable ==
    [][ (request'.op = "create" /\ Cardinality(request'.employees) = 1) =>
            LET e == CHOOSE x \in request'.employees : TRUE
                stored == {users[e].primary_shift} \cup
                              ({users[e].secondary_shift} \ {NoName})
            IN  /\ result' # "not_offered" <=> request'.shift_type \in stored
                /\ result' = "not_offered" => shifts' = shifts
      ]_vars

\* C31 witness: the first employee has primary weekend_night and secondary late,
\* and a night shift, which the compatibility set of weekend_night holds, is not
\* offered.
C31_Witness ==
    /\ request.op = "create"
    /\ request.employees = {Emp(1)}
    /\ request.shift_type = "night"
    /\ result = "not_offered"
    /\ users[Emp(1)].primary_shift = "weekend_night"
    /\ users[Emp(1)].secondary_shift = "late"
    /\ "night" \in CompatibilitySet("weekend_night")

----------------------------------------------------------------------------
(* Claims C32 and C33, under SpecGenerator *)

\* C32: the fill-up loop of the generator can always make progress: whenever the
\* generator is in the loop with fewer shifts than it fills up to, some day of the
\* year, some allowed type and some offset of the start give a start at least 12
\* hours after the end of the last generated shift, so that a shift is added.
C32_FillUpCanProgress ==
    (gen.pc = "fill" /\ gen.count < GenMinShifts) =>
        \E k \in 0..(GenYearDays - 1), t \in Qualified(users[Head(gen.emps)]), ds \in -10..10 :
            \/ gen.last = <<>>
            \/ ((Today - GenYearDays + k) * 1440 + strptime(SHIFT_TYPES[t].start) + ds)
                   - gen.last[1] >= 12 * 60

\* the shifts of store ss that the generator made for employee e, in the order made
GeneratedFor(ss, e) == SelectSeq(ss, LAMBDA x : x.assigned_employees = {e})

\* C33: every shift the generator has made, in its dict and in the store it saves,
\* is assigned to one employee and has that employee's primary or secondary type,
\* is stored approved with actual times, and starts at least 12 hours after the
\* end of the shift made before it for the same employee.
C33_GeneratedShiftsValid ==
    \A ss \in {gen.store, shifts} :
        /\ \A i \in 1..Len(ss) :
              /\ \E e \in EmployeesOf(users) :
                    /\ ss[i].assigned_employees = {e}
                    /\ ss[i].shift_type \in Qualified(users[e])
              /\ ss[i].status = "approved"
              /\ ss[i].approved
              /\ ss[i].actual_start # NoTime /\ WellFormed(ss[i].actual_start)
              /\ ss[i].actual_end # NoTime /\ WellFormed(ss[i].actual_end)
        /\ \A e \in EmployeesOf(users) :
              LET mine == GeneratedFor(ss, e)
              IN  \A i \in 1..(Len(mine) - 1) :
                      TrueStart(mine[i + 1]) - TrueEnd(mine[i]) >= 12 * 60

\* C33 witness: the generator has saved its store; the last employee has a shift
\* of the primary and one of the secondary type, one made in the fill-up loop, and
\* two shifts in a row with exactly 12 hours between them.
C33_Witness ==
    /\ gen.pc = "done"
    /\ shifts = gen.store
    /\ LET mine == GeneratedFor(shifts, Emp(NumEmployees))
       IN  /\ \E i \in 1..Len(mine) : mine[i].shift_type = users[Emp(NumEmployees)].primary_shift
           /\ \E i \in 1..Len(mine) : mine[i].shift_type = users[Emp(NumEmployees)].secondary_shift
           /\ \E i \in 1..Len(mine) : mine[i].id[1] = "auto_extra"
           /\ \E i \in 1..(Len(mine) - 1) : TrueStart(mine[i + 1]) - TrueEnd(mine[i]) = 12 * 60

----------------------------------------------------------------------------
(* Claim C34, under SpecFlags *)

\* C34: in every reachable state every stored shift has one of the statuses
\* pending, accepted, declined and approved, and has approved = TRUE exactly when
\* its status is approved.
C34_StatusAndFlagAgree ==
    \A i \in 1..Len(shifts) :
        /\ shifts[i].status \in {"pending", "accepted", "declined", "approved"}
        /\ shifts[i].approved \in BOOLEAN
        /\ shifts[i].approved <=> shifts[i].status = "approved"

\* C34 witness: the store holds an accepted and a declined shift, a shift
\* created with the form and approved on the Approve Shifts page, and a manual
\* payroll entry.
C34_Witness ==
    /\ request.op = "approve"
    /\ result = "approved"
    /\ \E i \in 1..Len(shifts) : shifts[i].status = "accepted"
    /\ \E i \in 1..Len(shifts) : shifts[i].status = "declined"
    /\ \E i \in 1..Len(shifts) : shifts[i].id = request.id /\ shifts[i].id[1] = "shift" /\ shifts[i].approved
    /\ \E i \in 1..Len(shifts) : shifts[i].id[1] = "manual_payroll"

----------------------------------------------------------------------------
(* Claim C35, under SpecScheduling *)

\* the store without its manual payroll records
RECURSIVE WithoutManual(_)
WithoutManual(ss) ==
    IF ss = <<>> THEN <<>>
    ELSE IF Head(ss).shift_type = "manual_payroll" THEN WithoutManual(Tail(ss))
    ELSE <<Head(ss)>> \o WithoutManual(Tail(ss))

\* C35: manual payroll entries do not affect scheduling: whenever the Create
\* Shift form refuses a shift for lack of rest, the rest-period check on the
\* store without its manual payroll records refuses it too.
C35_ManualEntriesIgnored ==
    (request.op = "create" /\ result = "downtime")
        => downtime_violations(WithoutManual(shifts), request.employees,
                               combine(request.date, request.planned_start)) # {}

----------------------------------------------------------------------------
(* Claim C36, under SpecStore *)

----------------------------------------------------------------------------
(* Claim C37, under SpecStatus *)

\* C37: a shift with several assigned employees has one status for all of them.
\* An accept or decline that acts leaves the shift with the chosen status, which
\* is not pending; and from every state in which such a shift is not pending, no
\* assigned employee is shown its buttons, a press of Accept or Decline by any
\* assigned employee leaves the record as it is, and the shift does not become
\* pending again.
C37_SharedStatus ==
    [][ /\ (request'.op = "respond" /\ result' # "not_offered") =>
              /\ Get(shifts', request'.id).status = result'
              /\ result' \in {"accepted", "declined"}
              /\ \A u \in Get(shifts', request'.id).assigned_employees :
                    request'.id \notin pending_shifts(shifts', u)
        /\ \A i \in 1..Len(shifts) :
              (Cardinality(shifts[i].assigned_employees) > 1 /\ shifts[i].status # "pending") =>
                  /\ \A u \in shifts[i].assigned_employees :
                        shifts[i].id \notin pending_shifts(shifts, u)
                  /\ i <= Len(shifts')
                  /\ shifts'[i].status # "pending"
                  /\ (request'.op = "respond" /\ request'.id = shifts[i].id) =>
                        (result' = "not_offered" /\ shifts'[i] = shifts[i])
      ]_vars

\* C37 witness: a shift assigned to the first two employees has been declined, and
\* the second employee has then pressed Accept on a page that still showed it: the
\* press is refused and the shift is still declined.
C37_Witness ==
    /\ request.op = "respond"
    /\ request.username = Emp(2)
    /\ request.new_status = "accepted"
    /\ result = "not_offered"
    /\ request.id \in Ids(shifts)
    /\ Get(shifts, request.id).assigned_employees = {Emp(1), Emp(2)}
    /\ Get(shifts, request.id).status = "declined"

----------------------------------------------------------------------------
(* Claim C38, under SpecApprove *)

\* the planned starts the rest period is asked for: three times of each of the two
\* days after today
C38_Starts == {combine(d, <<h, 0>>) : d \in (Today + 1)..(Today + 2), h \in {9, 10, 14}}

\* C38: the rest-period check reads only the date and the planned times of the
\* stored shifts: on every reachable store, the Approve button pressed with
\* corrected actual times for any shift the page lists leaves the outcome of the
\* rest-period check of every employee, for every planned start, as it was.
C38_RestIgnoresActualTimes ==
    \A dt \in C38_Starts :
        LET before == downtime_violations(shifts, EmployeesOf(users), dt)
        IN  \A id \in pending_approval_shifts(shifts) :
                LET click == approve_click(shifts, id, "Partial Approval", <<15, 0>>, <<21, 0>>)
                IN  /\ click.result = "approved"
                    /\ Get(click.shifts, id).actual_end = <<21, 0>>
                    /\ downtime_violations(click.shifts, EmployeesOf(users), dt) = before

\* C38 witness: a shift of the first employee has been approved with the actual
\* times 15:00 and 21:00 in place of its planned times; a shift that starts eleven
\* hours after its planned end is refused for lack of rest, although it starts
\* twelve hours after the actual end.
C38_Witness ==
    /\ request.op = "approve"
    /\ request.approval_type = "Partial Approval"
    /\ result = "approved"
    /\ request.id \in Ids(shifts)
    /\ LET s == Get(shifts, request.id)
       IN  /\ s.actual_end = <<21, 0>>
           /\ s.actual_end # s.planned_end
           /\ Emp(1) \in s.assigned_employees
           /\ shift_end_dt(s) = combine(s.date, <<22, 0>>)
           /\ downtime_violations(shifts, {Emp(1)}, combine(s.date + 1, <<9, 0>>)) = {Emp(1)}

----------------------------------------------------------------------------
(* Claim C39, under SpecAmounts *)

====
